---- MODULE Spec2Model ----
(***************************************************************************)
(* Parrot radiation monitor, firmware v1.5.1 (src/files/parrot.ino, lines  *)
(* 1226-1704): pulse counting, CPM computation, health aggregation, the    *)
(* status LED state machine, the radmon.org upload, the HQ status ping and *)
(* the DHCP SafeBoot logic, as a state machine over the sketch's globals.  *)
(*                                                                         *)
(* Time.  millis() is modelled in ticks of TickMs milliseconds (the LED    *)
(* flash period, the finest duration the sketch uses); every duration of   *)
(* the sketch is a whole number of ticks.  The 32-bit millisecond counter  *)
(* is scaled down to a counter that wraps at ClockMod ticks.               *)
(***************************************************************************)
EXTENDS Integers, Sequences, FiniteSets, TLC

\* ------------------------------------------------------------------------
\* Program constants (milliseconds and thresholds as written in the sketch)
\* ------------------------------------------------------------------------
CPM_NORMAL_MIN == 20
CPM_NORMAL_MAX == 40
CPM_WARN_THRESHOLD == 100
CPM_DANGER_THRESHOLD == 275
CPM_MAX_VALID == 50000
ZERO_CPM_FAULT_COUNT == 3
ZERO_COUNT_MAX == 255
LOG_PERIOD_MS == 60000
MAX_PERIOD_MS == 60000
RADMON_FAIL_TIMEOUT_MS == 900000
DHCP_RETRY_MS == 600000
LED_FLASH_PERIOD_MS == 500
HTTP_TIMEOUT_MS == 5000
WDTO_8S_MS == 8000
DHCP_RETRIES == 3
DHCP_PAUSE_SLICES == 10
DHCP_SLICE_MS == 500
\* temperatures are kept in tenths of a degree Celsius
TEMP_WARN_THRESHOLD_C == 500
TEMP_HIGH_THRESHOLD_C == 600
TEMP_UNKNOWN == -1270
HUM_UNKNOWN == -1

TickMs == LED_FLASH_PERIOD_MS
LOG_PERIOD == LOG_PERIOD_MS \div TickMs
RADMON_FAIL_TIMEOUT == RADMON_FAIL_TIMEOUT_MS \div TickMs
DHCP_RETRY_PERIOD == DHCP_RETRY_MS \div TickMs
LED_FLASH_PERIOD == LED_FLASH_PERIOD_MS \div TickMs
HTTP_TIMEOUT == HTTP_TIMEOUT_MS \div TickMs
WDTO_8S == WDTO_8S_MS \div TickMs
DHCP_SLICE == DHCP_SLICE_MS \div TickMs
\* multiplier = MAX_PERIOD / LOG_PERIOD, computed once in setup()
Multiplier == MAX_PERIOD_MS \div LOG_PERIOD_MS

\* ------------------------------------------------------------------------
\* Bounds of the model
\* ------------------------------------------------------------------------
\* the scaled millisecond counter wraps after this many logging periods
WrapWindows == 16
\* pulses recorded in one run of the interrupt/drain interleaving model
MaxPulses == 5
\* largest rate fed to the classifier in the pure-function model
MaxCpmArg == 300

ClockMod == LOG_PERIOD * WrapWindows

\* unsigned subtraction a - b of two clock values (wraps like unsigned long)
ClockSub(a, b) == (a - b) % ClockMod

Max2(a, b) == IF a >= b THEN a ELSE b
Min2(a, b) == IF a <= b THEN a ELSE b

\* ------------------------------------------------------------------------
\* Enumerations
\* ------------------------------------------------------------------------
RAD_LOW == "RAD_LOW"
RAD_NORMAL == "RAD_NORMAL"
RAD_WARN == "RAD_WARN"
RAD_DANGER == "RAD_DANGER"
RadState == {RAD_LOW, RAD_NORMAL, RAD_WARN, RAD_DANGER}

FAIL_NONE == "FAIL_NONE"
FAIL_CONNECT == "FAIL_CONNECT"
FAIL_NO_OK == "FAIL_NO_OK"
FAIL_DHCP == "FAIL_DHCP"
FailReason == {FAIL_NONE, FAIL_CONNECT, FAIL_NO_OK, FAIL_DHCP}

LOW == 0
HIGH == 1

\* ------------------------------------------------------------------------
\* Pure helpers of the sketch
\* ------------------------------------------------------------------------
\* a classifier whose NORMAL band swallows the gap below the warn threshold
getRadiationStateGapless(cpmValue) ==
  IF cpmValue >= CPM_DANGER_THRESHOLD THEN RAD_DANGER
  ELSE IF cpmValue >= CPM_WARN_THRESHOLD THEN RAD_WARN
  ELSE IF cpmValue >= CPM_NORMAL_MIN THEN RAD_NORMAL
  ELSE RAD_LOW

getRadiationState(cpmValue) ==
  IF cpmValue >= CPM_DANGER_THRESHOLD THEN RAD_DANGER
  ELSE IF cpmValue >= CPM_WARN_THRESHOLD THEN RAD_WARN
  ELSE IF cpmValue >= CPM_NORMAL_MIN /\ cpmValue <= CPM_NORMAL_MAX THEN RAD_NORMAL
  ELSE RAD_LOW

\* a level computation that forgets the interior-temperature warning floor
HealthLevelNoTempWarn(radState, sensorFault, tempWarn, tempHigh, netOK) ==
  LET l0 == 0
      l1 == IF ~netOK THEN Max2(l0, 1) ELSE l0
      l2 == IF sensorFault \/ radState = RAD_WARN THEN Max2(l1, 2) ELSE l1
      l3 == IF tempHigh \/ radState = RAD_DANGER THEN Max2(l2, 3) ELSE l2
  IN  l3

\* a level computation without the floor of a network that is not OK
HealthLevelNoNetFloor(radState, sensorFault, tempWarn, tempHigh, netOK) ==
  LET l0 == 0
      l2 == IF sensorFault \/ tempWarn \/ radState = RAD_WARN THEN Max2(l0, 2) ELSE l0
      l3 == IF tempHigh \/ radState = RAD_DANGER THEN Max2(l2, 3) ELSE l2
  IN  l3

\* a level computation that forgets the sensor-fault floor
HealthLevelNoSensorFloor(radState, sensorFault, tempWarn, tempHigh, netOK) ==
  LET l0 == 0
      l1 == IF ~netOK THEN Max2(l0, 1) ELSE l0
      l2 == IF tempWarn \/ radState = RAD_WARN THEN Max2(l1, 2) ELSE l1
      l3 == IF tempHigh \/ radState = RAD_DANGER THEN Max2(l2, 3) ELSE l2
  IN  l3

\* a level computation in which a sensor fault raises the level to 3
HealthLevelFaultIsCritical(radState, sensorFault, tempWarn, tempHigh, netOK) ==
  LET l0 == 0
      l1 == IF ~netOK THEN Max2(l0, 1) ELSE l0
      l2 == IF tempWarn \/ radState = RAD_WARN THEN Max2(l1, 2) ELSE l1
      l3 == IF sensorFault \/ tempHigh \/ radState = RAD_DANGER THEN Max2(l2, 3) ELSE l2
  IN  l3

\* lines 1392-1396 of updateHealthModel: lvl = max over the triggered floors
HealthLevel(radState, sensorFault, tempWarn, tempHigh, netOK) ==
  LET l0 == 0
      l1 == IF ~netOK THEN Max2(l0, 1) ELSE l0
      l2 == IF sensorFault \/ tempWarn \/ radState = RAD_WARN THEN Max2(l1, 2) ELSE l1
      l3 == IF tempHigh \/ radState = RAD_DANGER THEN Max2(l2, 3) ELSE l2
  IN  l3

\* lines 1386-1389 of updateHealthModel, with the stale test made strict (<)
NetOKLocalStrict(fail, lastSuccess, t) ==
  IF fail = FAIL_DHCP THEN FALSE
  ELSE IF lastSuccess = 0 THEN FALSE
  ELSE ClockSub(t, lastSuccess) < RADMON_FAIL_TIMEOUT

\* lines 1386-1389 of updateHealthModel
NetOKLocal(fail, lastSuccess, t) ==
  IF fail = FAIL_DHCP THEN FALSE
  ELSE IF lastSuccess = 0 THEN FALSE
  ELSE ClockSub(t, lastSuccess) <= RADMON_FAIL_TIMEOUT

\* the record updateHealthModel() leaves in `health'
HealthOf(cpmV, zeroV, tempV, fail, lastSuccess, t) ==
  LET rs == getRadiationState(cpmV)
      sf == (zeroV >= ZERO_CPM_FAULT_COUNT)
      tw == (tempV >= TEMP_WARN_THRESHOLD_C /\ tempV < TEMP_HIGH_THRESHOLD_C)
      th == (tempV >= TEMP_HIGH_THRESHOLD_C)
      ok == NetOKLocal(fail, lastSuccess, t)
  IN  [level |-> HealthLevel(rs, sf, tw, th, ok), radState |-> rs,
       sensorFault |-> sf, tempWarn |-> tw, tempHigh |-> th, netOK |-> ok]

\* the arguments updateStatusLED() passes to setLedState(), level 2 flashing
LedForLevelFlash2(level) ==
  CASE level = 3 -> [r |-> HIGH, g |-> LOW, b |-> LOW, flash |-> TRUE]
    [] level = 2 -> [r |-> HIGH, g |-> LOW, b |-> LOW, flash |-> TRUE]
    [] level = 1 -> [r |-> HIGH, g |-> HIGH, b |-> LOW, flash |-> FALSE]
    [] OTHER     -> [r |-> LOW, g |-> HIGH, b |-> LOW, flash |-> FALSE]

\* the arguments updateStatusLED() passes to setLedState() for a level
LedForLevel(level) ==
  CASE level = 3 -> [r |-> HIGH, g |-> LOW, b |-> LOW, flash |-> TRUE]
    [] level = 2 -> [r |-> HIGH, g |-> LOW, b |-> LOW, flash |-> FALSE]
    [] level = 1 -> [r |-> HIGH, g |-> HIGH, b |-> LOW, flash |-> FALSE]
    [] OTHER     -> [r |-> LOW, g |-> HIGH, b |-> LOW, flash |-> FALSE]

\* the ceiling test of the CPM calculation, comparing with >= instead of >
ClampCpmOffByOne(v) == IF v >= CPM_MAX_VALID THEN 0 ELSE v

\* line 1657: if (cpm > CPM_MAX_VALID) cpm = 0;
ClampCpm(v) == IF v > CPM_MAX_VALID THEN 0 ELSE v

\* a zero-streak update that never clears the streak
ZeroTrackSticky(z, cpmV) ==
  IF cpmV = 0 THEN (IF z < ZERO_COUNT_MAX THEN z + 1 ELSE z) ELSE z

\* a zero-streak update that increments the byte without the test of 255
ZeroTrackWraps(z, cpmV) ==
  IF cpmV = 0 THEN (z + 1) % (ZERO_COUNT_MAX + 1) ELSE 0

\* lines 1672-1674: zero count tracking
ZeroTrack(z, cpmV) ==
  IF cpmV = 0 THEN (IF z < ZERO_COUNT_MAX THEN z + 1 ELSE z) ELSE 0

\* the value standing for a float NaN returned by the DHT library
NaN == -99999

\* a plausibility test that looks at the temperature alone
ReadingValidTempOnly(t, h) ==
  /\ t # NaN
  /\ t > -400 /\ t < 800
\* line 1663: the plausibility test of a DHT reading (tenths of a degree, %)
ReadingValid(t, h) ==
  /\ t # NaN /\ h # NaN
  /\ t > -400 /\ t < 800 /\ h >= 0 /\ h <= 100

\* lines 1665-1668: exponential smoothing, 0.8 * old + 0.2 * new
Smooth(old, new) == (8 * old + 2 * new) \div 10

\* lines 1663-1669: the stored ambient values after a reading (t, h)
DhtUpdate(oldT, oldH, t, h) ==
  IF ReadingValid(t, h)
  THEN [t |-> IF oldT < -1000 THEN t ELSE Smooth(oldT, t),
        h |-> IF oldH < 0 THEN h ELSE Smooth(oldH, h)]
  ELSE [t |-> oldT, h |-> oldH]

\* ------------------------------------------------------------------------
\* State
\* ------------------------------------------------------------------------
VARIABLES
  pc,                 \* position of the main context
  retries, slice,     \* locals of attemptDHCP()
  dhcpRet,            \* caller of attemptDHCP(): "setup" or "loop"
  resetCause,         \* MCUSR as captured by getResetCause() at start-up
  attempts, pauses,   \* history: Ethernet.begin() calls made and pauses completed
                      \* by the current (or last) call of attemptDHCP()
  retryAt,            \* history: uptime at the start of the last periodic
                      \* DHCP retry, -1 before the first
  now,                \* millis(), in ticks, modulo ClockMod
  wdtArmed, wdtAge,   \* watchdog enabled; ticks since the last wdt_reset()
  counts, cpm, previousMillis, currentMillis, zeroCount,
  cycleAt,            \* history: the time since boot at which previousMillis
                      \* was last assigned
  interiorTempC, interiorHum,
  netReady, lastFailReason, lastSuccessMillis,
  lastHttpStatusCode, hqHttpStatusCode, lastDhcpRetry,
  health,
  ledR, ledG, ledB, ledFlash, ledOn, ledLastToggle,
  pins,               \* levels last written to the three LED pins
  uptime,             \* history: ticks since the last MCU start, not wrapped
  sinceSuccess,       \* history: ticks since lastSuccessMillis was last set
  everSuccess,        \* history: lastSuccessMillis was set since boot
  recorded, drained,  \* history: pulses recorded / returned by drains
  lastDrain,          \* history: the count read by the last drain
  zeroRun,            \* history: length of the current run of zero-rate windows
  radmonTry,          \* history: inputs and clock of the last radmon attempt
  cycleLog,           \* history: steps of the current window cycle, in order
  fnArg, fnRes,       \* argument and result of a pure helper under test
  rx,                 \* the bytes the peer sends on the connection, in order
  rxLoop,             \* the peer repeats rx without end
  rxArrived,          \* number of bytes of rx delivered to the socket so far
  rxPos,              \* number of bytes readHttpStatusCode() has read
  peerCloses,         \* the peer closes once everything is delivered
  peerClosed,         \* the peer has closed
  start, line, idx, gotStatusLine, statusCode,  \* locals of readHttpStatusCode()
  burst,              \* bytes read since millis() last advanced
  rdResult,           \* the value readHttpStatusCode() returned
  dhcpUp,             \* a DHCP server answers on the network
  hqSent              \* history: the fields of the request sent by the call of
                      \* sendStatusPing() that has just returned

dh == <<attempts, pauses, retryAt>>
ctl == <<pc, retries, slice, dhcpRet, resetCause, dh>>
clk == <<now, wdtArmed, wdtAge, uptime>>
meas == <<counts, cpm, previousMillis, currentMillis, zeroCount, cycleAt>>
amb == <<interiorTempC, interiorHum>>
net == <<netReady, lastFailReason, lastSuccessMillis, lastHttpStatusCode,
         hqHttpStatusCode, lastDhcpRetry>>
led == <<ledR, ledG, ledB, ledFlash, ledOn, ledLastToggle, pins>>
hist == <<sinceSuccess, everSuccess, recorded, drained, lastDrain, zeroRun,
          radmonTry, cycleLog>>
fn == <<fnArg, fnRes>>
peer == <<rx, rxLoop, rxArrived, peerCloses, peerClosed>>
rd == <<peer, rxPos, start, line, idx, gotStatusLine, statusCode, burst, rdResult>>
vars == <<ctl, clk, meas, amb, net, health, led, hist, fn, rd, dhcpUp, hqSent>>

NoTry == [conn |-> FALSE, code |-> 0, at |-> 0, prevSuccess |-> 0]
\* no call of sendStatusPing() has just sent a request
NoPing == [at |-> -1]

\* no call of readHttpStatusCode() is in progress
RdIdle ==
  /\ rx = <<>> /\ rxLoop = FALSE /\ rxArrived = 0 /\ rxPos = 0
  /\ peerCloses = FALSE /\ peerClosed = FALSE
  /\ start = 0 /\ line = <<>> /\ idx = 0 /\ gotStatusLine = FALSE
  /\ statusCode = 0 /\ burst = 0 /\ rdResult = 0

\* the globals other than the clock as the C++ initialisers leave them
InitData ==
  /\ retries = 0 /\ slice = 0 /\ dhcpRet = "setup"
  /\ resetCause = "PORF"
  /\ attempts = 0 /\ pauses = 0 /\ retryAt = -1
  /\ wdtArmed = FALSE /\ wdtAge = 0 /\ uptime = 0
  /\ counts = 0 /\ cpm = 0 /\ previousMillis = 0 /\ currentMillis = 0
  /\ cycleAt = 0
  /\ zeroCount = 0
  /\ interiorTempC = 0 /\ interiorHum = 0
  /\ netReady = TRUE /\ lastFailReason = FAIL_NONE /\ lastSuccessMillis = 0
  /\ lastHttpStatusCode = 0 /\ hqHttpStatusCode = 0 /\ lastDhcpRetry = 0
  /\ health = [level |-> 0, radState |-> RAD_LOW, sensorFault |-> FALSE,
               tempWarn |-> FALSE, tempHigh |-> FALSE, netOK |-> FALSE]
  /\ ledR = LOW /\ ledG = LOW /\ ledB = LOW
  /\ ledFlash = FALSE /\ ledOn = TRUE /\ ledLastToggle = 0
  /\ pins = <<LOW, LOW, LOW>>
  /\ sinceSuccess = 0 /\ everSuccess = FALSE
  /\ recorded = 0 /\ drained = 0 /\ lastDrain = 0 /\ zeroRun = 0
  /\ radmonTry = NoTry /\ cycleLog = <<>>
  /\ dhcpUp = FALSE
  /\ hqSent = NoPing

\* the state before setup() runs
InitGlobals == pc = "boot" /\ now = 0 /\ InitData /\ RdIdle

Init == InitGlobals /\ fnArg = <<>> /\ fnRes = <<>>

\* ------------------------------------------------------------------------
\* Time and the watchdog
\* ------------------------------------------------------------------------
AgeCap == 2 * ClockMod

\* d ticks pass while the main context runs or blocks
Elapse(d) ==
  /\ now' = (now + d) % ClockMod
  /\ uptime' = uptime + d
  /\ wdtAge' = IF wdtArmed THEN wdtAge + d ELSE 0
  /\ UNCHANGED wdtArmed

\* the same d ticks with a wdt_reset() at their end
ElapseKick(d) ==
  /\ now' = (now + d) % ClockMod
  /\ uptime' = uptime + d
  /\ wdtAge' = 0
  /\ UNCHANGED wdtArmed

Aged(d) == Min2(sinceSuccess + d, AgeCap)

\* the armed watchdog times out before d more ticks have passed
WouldBite(d) == wdtArmed /\ wdtAge + d >= WDTO_8S

\* the watchdog expires in the middle of a blocking call
Bite ==
  /\ pc' = "bitten"
  /\ UNCHANGED <<resetCause, dh, retries, slice, dhcpRet, clk, meas, amb, net, health, led,
                 hist, fn, rd, dhcpUp, hqSent>>

\* the MCU restarts after a watchdog reset: RAM and millis() start afresh
McuReset ==
  /\ pc = "bitten"
  /\ pc' = "boot" /\ retries' = 0 /\ slice' = 0 /\ dhcpRet' = "setup"
  /\ resetCause' = "WDRF"
  /\ attempts' = 0 /\ pauses' = 0 /\ retryAt' = -1
  /\ now' = 0 /\ wdtArmed' = FALSE /\ wdtAge' = 0 /\ uptime' = 0
  /\ counts' = 0 /\ cpm' = 0 /\ previousMillis' = 0 /\ currentMillis' = 0
  /\ cycleAt' = 0
  /\ zeroCount' = 0
  /\ interiorTempC' = 0 /\ interiorHum' = 0
  /\ netReady' = TRUE /\ lastFailReason' = FAIL_NONE /\ lastSuccessMillis' = 0
  /\ lastHttpStatusCode' = 0 /\ hqHttpStatusCode' = 0 /\ lastDhcpRetry' = 0
  /\ health' = [level |-> 0, radState |-> RAD_LOW, sensorFault |-> FALSE,
                tempWarn |-> FALSE, tempHigh |-> FALSE, netOK |-> FALSE]
  /\ ledR' = LOW /\ ledG' = LOW /\ ledB' = LOW
  /\ ledFlash' = FALSE /\ ledOn' = TRUE /\ ledLastToggle' = 0
  /\ pins' = <<LOW, LOW, LOW>>
  /\ sinceSuccess' = 0 /\ everSuccess' = FALSE
  /\ recorded' = 0 /\ drained' = 0 /\ lastDrain' = 0 /\ zeroRun' = 0
  /\ radmonTry' = NoTry /\ cycleLog' = <<>> /\ hqSent' = NoPing
  /\ UNCHANGED <<fn, rd, dhcpUp>>

\* ------------------------------------------------------------------------
\* The LED state machine
\* ------------------------------------------------------------------------
\* applyLed(): what reaches the pins for the given phase and colour
AppliedPins(on, r, g, b) == IF on THEN <<r, g, b>> ELSE <<LOW, LOW, LOW>>

\* a state entry that leaves the flash phase where it was
setLedStateKeepsPhase(r, g, b, flash, t) ==
  /\ ledR' = r /\ ledG' = g /\ ledB' = b
  /\ ledFlash' = flash /\ ledOn' = ledOn
  /\ ledLastToggle' = t
  /\ pins' = AppliedPins(ledOn, r, g, b)

\* a state entry that restarts the phase only when the new state flashes
setLedStatePhaseOnFlash(r, g, b, flash, t) ==
  /\ ledR' = r /\ ledG' = g /\ ledB' = b
  /\ ledFlash' = flash /\ ledOn' = (flash \/ ledOn)
  /\ ledLastToggle' = t
  /\ pins' = AppliedPins(flash \/ ledOn, r, g, b)

\* setLedState(r, g, b, flash) called at clock value t
setLedState(r, g, b, flash, t) ==
  /\ ledR' = r /\ ledG' = g /\ ledB' = b
  /\ ledFlash' = flash /\ ledOn' = TRUE
  /\ ledLastToggle' = t
  /\ pins' = AppliedPins(TRUE, r, g, b)

\* a tick that toggles whatever the flashing flag says
TickDueAnyState(flash, elapsed) == elapsed >= LED_FLASH_PERIOD

\* lines 1322-1324: ledTick() toggles when the state flashes and the flash
\* period has elapsed since the last toggle
TickDue(flash, elapsed) == flash /\ elapsed >= LED_FLASH_PERIOD

\* ------------------------------------------------------------------------
\* The interrupt context
\* ------------------------------------------------------------------------
\* n consecutive runs of the ISR tube_impulse() { counts++; } between two
\* steps of the main context, n chosen so that counts lands in env.levels
tube_impulse(env) ==
  /\ pc \notin {"boot", "bitten"}
  /\ \E c \in env.levels :
       /\ c > counts
       /\ counts' = c
       /\ recorded' = IF env.track THEN recorded + (c - counts) ELSE recorded
  /\ UNCHANGED <<ctl, clk, cpm, previousMillis, cycleAt, currentMillis, zeroCount, amb,
                 net, health, led, sinceSuccess, everSuccess, drained, lastDrain, zeroRun,
                 radmonTry, cycleLog, fn, rd, dhcpUp, hqSent>>

\* ------------------------------------------------------------------------
\* setup() and attemptDHCP()
\* ------------------------------------------------------------------------
\* setup() up to the SafeBoot DHCP init (lines 1572-1598)
Setup(env) ==
  /\ pc = "boot"
  /\ \E d \in env.bootTicks :
       /\ uptime + d <= env.horizon
       /\ Elapse(d)
       /\ sinceSuccess' = Aged(d)
  /\ counts' = 0 /\ cpm' = 0 /\ previousMillis' = now /\ zeroCount' = 0
  /\ cycleAt' = uptime
  /\ lastFailReason' = FAIL_NONE /\ lastHttpStatusCode' = 0
  /\ hqHttpStatusCode' = 0 /\ lastSuccessMillis' = 0 /\ netReady' = TRUE
  /\ interiorTempC' = TEMP_UNKNOWN /\ interiorHum' = HUM_UNKNOWN
  /\ setLedState(LOW, HIGH, LOW, FALSE, now)
  /\ retries' = DHCP_RETRIES /\ slice' = 0 /\ dhcpRet' = "setup"
  /\ attempts' = 0 /\ pauses' = 0
  /\ pc' = "dhcp_try"
  /\ UNCHANGED <<resetCause, retryAt, currentMillis, lastDhcpRetry, health, everSuccess, recorded,
                 drained, lastDrain, zeroRun, radmonTry, cycleLog, fn, rd, dhcpUp, hqSent>>

\* a caller in loop() that treats a success the way setup() does, without
\* stamping the last-success time
DhcpReturnNoStamp(ok, t) ==
  IF dhcpRet = "setup"
  THEN /\ netReady' = ok
       /\ lastFailReason' = IF ok THEN FAIL_NONE ELSE FAIL_DHCP
       /\ pc' = "setup_fin"
       /\ UNCHANGED <<lastSuccessMillis, everSuccess>>
  ELSE /\ netReady' = IF ok THEN TRUE ELSE netReady
       /\ lastFailReason' = IF ok THEN FAIL_NONE ELSE lastFailReason
       /\ pc' = "win_check"
       /\ UNCHANGED <<lastSuccessMillis, everSuccess>>

\* a caller in loop() that sets netReady on success and leaves the fail
\* reason as it was
DhcpReturnKeepsReason(ok, t) ==
  IF dhcpRet = "setup"
  THEN /\ netReady' = ok
       /\ lastFailReason' = IF ok THEN FAIL_NONE ELSE FAIL_DHCP
       /\ pc' = "setup_fin"
       /\ UNCHANGED <<lastSuccessMillis, everSuccess>>
  ELSE /\ netReady' = IF ok THEN TRUE ELSE netReady
       /\ lastFailReason' = lastFailReason
       /\ lastSuccessMillis' = IF ok THEN t ELSE lastSuccessMillis
       /\ everSuccess' = IF ok THEN TRUE ELSE everSuccess
       /\ pc' = "win_check"

\* what the caller of attemptDHCP() does with its result (setup lines
\* 1601-1614, loop lines 1635-1647); t is millis() at the return
DhcpReturn(ok, t) ==
  IF dhcpRet = "setup"
  THEN /\ netReady' = ok
       /\ lastFailReason' = IF ok THEN FAIL_NONE ELSE FAIL_DHCP
       /\ pc' = "setup_fin"
       /\ UNCHANGED <<lastSuccessMillis, everSuccess>>
  ELSE /\ netReady' = IF ok THEN TRUE ELSE netReady
       /\ lastFailReason' = IF ok THEN FAIL_NONE ELSE lastFailReason
       /\ lastSuccessMillis' = IF ok THEN t ELSE lastSuccessMillis
       /\ everSuccess' = IF ok THEN TRUE ELSE everSuccess
       /\ pc' = "win_check"

\* one evaluation of `while (retries-- > 0)' and, inside the loop, one call
\* of Ethernet.begin(mac), which blocks for d ticks
DhcpTry(env) ==
  /\ pc = "dhcp_try"
  /\ retries' = retries - 1
  /\ IF retries > 0
     THEN \E ok \in env.dhcpOk, d \in env.dhcpTicks :
            /\ env.server => (ok = dhcpUp) /\ (ok => d = 0)
            /\ uptime + d <= env.horizon
            /\ IF WouldBite(d)
               THEN /\ pc' = "bitten"
                    /\ UNCHANGED <<slice, clk, net, sinceSuccess, everSuccess,
                                   attempts>>
               ELSE /\ Elapse(d)
                    /\ attempts' = attempts + 1
                    /\ IF ok
                       THEN /\ DhcpReturn(TRUE, (now + d) % ClockMod)
                            /\ sinceSuccess' = IF dhcpRet = "loop" THEN 0 ELSE Aged(d)
                            /\ UNCHANGED <<slice, lastHttpStatusCode,
                                           hqHttpStatusCode, lastDhcpRetry>>
                       ELSE /\ slice' = 0 /\ pc' = "dhcp_pause"
                            /\ sinceSuccess' = Aged(d)
                            /\ UNCHANGED <<net, everSuccess>>
     ELSE /\ DhcpReturn(FALSE, now)
          /\ UNCHANGED <<slice, clk, sinceSuccess, lastHttpStatusCode,
                         hqHttpStatusCode, lastDhcpRetry, attempts>>
  /\ UNCHANGED <<resetCause, pauses, retryAt, dhcpRet, meas, amb, health, led, recorded, drained, lastDrain, zeroRun,
                 radmonTry, cycleLog, fn, rd, dhcpUp, hqSent>>

\* the age of the watchdog after `delay(500)' alone, entered at age `age'
SliceAgeNoReset(age) == age + DHCP_SLICE

\* lines 1417-1418: the age of the watchdog after `wdt_reset(); delay(500);'
\* entered at age `age'
SliceAge(age) == DHCP_SLICE

\* one round of `for (i < 10) { wdt_reset(); delay(500); }', or its exit
DhcpPause(env) ==
  /\ pc = "dhcp_pause"
  /\ IF slice < DHCP_PAUSE_SLICES
     THEN /\ uptime + DHCP_SLICE <= env.horizon
          /\ IF wdtArmed /\ SliceAge(wdtAge) >= WDTO_8S
             THEN /\ pc' = "bitten"
                  /\ UNCHANGED <<slice, clk, sinceSuccess, pauses>>
             ELSE /\ now' = (now + DHCP_SLICE) % ClockMod
                  /\ uptime' = uptime + DHCP_SLICE
                  /\ wdtAge' = IF wdtArmed THEN SliceAge(wdtAge) ELSE 0
                  /\ sinceSuccess' = Aged(DHCP_SLICE)
                  /\ slice' = slice + 1
                  /\ UNCHANGED <<pc, wdtArmed, pauses>>
     ELSE /\ pc' = "dhcp_try"
          /\ pauses' = pauses + 1
          /\ UNCHANGED <<slice, clk, sinceSuccess>>
  /\ UNCHANGED <<resetCause, attempts, retryAt, retries, dhcpRet, meas, amb, net, health, led, everSuccess,
                 recorded, drained, lastDrain, zeroRun, radmonTry, cycleLog, fn, rd, dhcpUp, hqSent>>

\* the end of setup(): wdt_enable, updateHealthModel, updateStatusLED
SetupFinish ==
  /\ pc = "setup_fin"
  /\ wdtArmed' = TRUE /\ wdtAge' = 0
  /\ health' = HealthOf(cpm, zeroCount, interiorTempC, lastFailReason,
                        lastSuccessMillis, now)
  /\ LET a == LedForLevel(health'.level)
     IN  setLedState(a.r, a.g, a.b, a.flash, now)
  /\ pc' = "loop_top"
  /\ UNCHANGED <<resetCause, dh, retries, slice, dhcpRet, now, uptime, meas, amb, net, hist, fn, rd, dhcpUp, hqSent>>

\* ------------------------------------------------------------------------
\* loop()
\* ------------------------------------------------------------------------
\* a retry test that does not look at netReady
RetryDueAnyState(ready, elapsed) == elapsed >= DHCP_RETRY_PERIOD

\* line 1630: the test of the periodic DHCP retry; elapsed is
\* millis() - lastDhcpRetry
RetryDue(ready, elapsed) == ~ready /\ elapsed >= DHCP_RETRY_PERIOD

\* lines 1625-1648: wdt_reset, Ethernet.maintain and the periodic DHCP retry
\* test; dt ticks have passed since the previous pass ended
LoopTop(env) ==
  /\ pc = "loop_top"
  /\ \E dt \in env.passTicks :
       /\ uptime + dt <= env.horizon
       /\ ElapseKick(dt)
       /\ sinceSuccess' = Aged(dt)
  /\ IF RetryDue(netReady, ClockSub(now', lastDhcpRetry))
     THEN /\ lastDhcpRetry' = now'
          /\ retries' = DHCP_RETRIES /\ dhcpRet' = "loop"
          /\ attempts' = 0 /\ pauses' = 0 /\ retryAt' = uptime'
          /\ pc' = "dhcp_try"
     ELSE /\ pc' = "win_check"
          /\ UNCHANGED <<lastDhcpRetry, retries, dhcpRet, dh>>
  /\ UNCHANGED <<resetCause, slice, meas, amb, netReady, lastFailReason,
                 lastSuccessMillis, lastHttpStatusCode, hqHttpStatusCode, health, led,
                 everSuccess, recorded, drained, lastDrain, zeroRun, radmonTry, cycleLog, fn, rd, dhcpUp, hqSent>>

\* ticks until the next logging period is due
ToWindow == LOG_PERIOD - ClockSub(now, previousMillis)
\* ticks until the next periodic DHCP retry is due
ToDhcpRetry == DHCP_RETRY_PERIOD - ClockSub(now, lastDhcpRetry)

\* a run of loop() passes, at least one per tick, in which neither a logging
\* period nor a DHCP retry is due: only wdt_reset() and ledTick() act
IdlePasses(env) ==
  /\ pc = "loop_top"
  /\ env.skip
  /\ ToWindow > 0
  /\ netReady \/ ToDhcpRetry > 0
  /\ LET d == IF netReady THEN ToWindow ELSE Min2(ToWindow, ToDhcpRetry)
         t == (now + d) % ClockMod
     IN  /\ uptime + d <= env.horizon
         /\ ElapseKick(d)
         /\ sinceSuccess' = Aged(d)
         /\ IF TickDue(ledFlash, d)
            THEN /\ ledLastToggle' = t
                 /\ ledOn' = IF d % 2 = 0 THEN ledOn ELSE ~ledOn
                 /\ pins' = AppliedPins(ledOn', ledR, ledG, ledB)
                 /\ UNCHANGED <<ledR, ledG, ledB, ledFlash>>
            ELSE UNCHANGED led
  /\ UNCHANGED <<ctl, meas, amb, net, health, everSuccess, recorded, drained, lastDrain, zeroRun,
                 radmonTry, cycleLog, fn, rd, dhcpUp, hqSent>>

\* the statement order the specification gives for a window cycle: health
\* and indicator update before the two reports
CycleNextReportsLast(step, ready) ==
  CASE step = "drain_read"  -> "drain_clear"
    [] step = "drain_clear" -> "rate"
    [] step = "rate"        -> "dht"
    [] step = "dht"         -> "zero"
    [] step = "zero"        -> "stale"
    [] step = "stale"       -> "health"
    [] step = "health"      -> "led"
    [] step = "led"         -> (IF ready THEN "upload" ELSE "wdt_kick")
    [] step = "upload"      -> "ping"
    [] step = "ping"        -> "wdt_kick"
    [] step = "wdt_kick"    -> "led_tick"

\* a window cycle that sends its reports whether the network is ready or not
CycleNextAlwaysReports(step, ready) ==
  CASE step = "drain_read"  -> "drain_clear"
    [] step = "drain_clear" -> "rate"
    [] step = "rate"        -> "dht"
    [] step = "dht"         -> "zero"
    [] step = "zero"        -> "stale"
    [] step = "stale"       -> "upload"
    [] step = "upload"      -> "ping"
    [] step = "ping"        -> "health"
    [] step = "health"      -> "led"
    [] step = "led"         -> "wdt_kick"
    [] step = "wdt_kick"    -> "led_tick"

\* a window cycle that goes back to the primary report after it
CycleNextRetriesPrimary(step, ready) ==
  CASE step = "drain_read"  -> "drain_clear"
    [] step = "drain_clear" -> "rate"
    [] step = "rate"        -> "dht"
    [] step = "dht"         -> "zero"
    [] step = "zero"        -> "stale"
    [] step = "stale"       -> (IF ready THEN "upload" ELSE "health")
    [] step = "upload"      -> "upload"
    [] step = "ping"        -> "health"
    [] step = "health"      -> "led"
    [] step = "led"         -> "wdt_kick"
    [] step = "wdt_kick"    -> "led_tick"

\* a window cycle that sends the primary report alone
CycleNextPrimaryOnly(step, ready) ==
  CASE step = "drain_read"  -> "drain_clear"
    [] step = "drain_clear" -> "rate"
    [] step = "rate"        -> "dht"
    [] step = "dht"         -> "zero"
    [] step = "zero"        -> "stale"
    [] step = "stale"       -> (IF ready THEN "upload" ELSE "health")
    [] step = "upload"      -> "health"
    [] step = "ping"        -> "health"
    [] step = "health"      -> "led"
    [] step = "led"         -> "wdt_kick"
    [] step = "wdt_kick"    -> "led_tick"

\* lines 1654-1699: the statement order of a window cycle in loop(); ready
\* is the test `if (netReady)' of line 1691
CycleNext(step, ready) ==
  CASE step = "drain_read"  -> "drain_clear"
    [] step = "drain_clear" -> "rate"
    [] step = "rate"        -> "dht"
    [] step = "dht"         -> "zero"
    [] step = "zero"        -> "stale"
    [] step = "stale"       -> (IF ready THEN "upload" ELSE "health")
    [] step = "upload"      -> "ping"
    [] step = "ping"        -> "health"
    [] step = "health"      -> "led"
    [] step = "led"         -> "wdt_kick"
    [] step = "wdt_kick"    -> "led_tick"

\* a logging-period test that compares the clock with previousMillis +
\* LOG_PERIOD instead of subtracting
WindowDueNoWrap(t, prev) == t >= prev + LOG_PERIOD

\* line 1651: currentMillis - previousMillis >= LOG_PERIOD, in unsigned long
WindowDue(t, prev) == ClockSub(t, prev) >= LOG_PERIOD

\* lines 1650-1652: the logging-period test
WindowCheck ==
  /\ pc = "win_check"
  /\ currentMillis' = now
  /\ IF WindowDue(now, previousMillis)
     THEN /\ previousMillis' = now
          /\ cycleAt' = uptime
          /\ cycleLog' = <<>>
          /\ pc' = "drain_read"
     ELSE /\ pc' = "led_tick"
          /\ UNCHANGED <<previousMillis, cycleAt, cycleLog>>
  /\ UNCHANGED <<resetCause, dh, retries, slice, dhcpRet, clk, counts, cpm, zeroCount, amb,
                 net, health, led, sinceSuccess, everSuccess, recorded,
                 drained, lastDrain, zeroRun, radmonTry, fn, rd, dhcpUp, hqSent>>

\* line 1655: cpm = counts * multiplier;
DrainRead ==
  /\ pc = "drain_read"
  /\ cpm' = counts * Multiplier
  /\ lastDrain' = counts
  /\ pc' = CycleNext("drain_read", netReady)
  /\ UNCHANGED <<resetCause, dh, retries, slice, dhcpRet, clk, counts, previousMillis, cycleAt,
                 currentMillis, zeroCount, amb, net, health, led,
                 sinceSuccess, everSuccess, recorded, drained, zeroRun,
                 radmonTry, cycleLog, fn, rd, dhcpUp, hqSent>>

\* line 1656: counts = 0;
DrainClear(env) ==
  /\ pc = "drain_clear"
  /\ counts' = 0
  /\ drained' = IF env.track THEN drained + (cpm \div Multiplier) ELSE drained
  /\ cycleLog' = Append(cycleLog, "drain")
  /\ pc' = CycleNext("drain_clear", netReady)
  /\ UNCHANGED <<resetCause, dh, retries, slice, dhcpRet, clk, cpm, previousMillis, cycleAt,
                 currentMillis, zeroCount, amb, net, health, led,
                 sinceSuccess, everSuccess, recorded, lastDrain, zeroRun,
                 radmonTry, fn, rd, dhcpUp, hqSent>>

\* lines 1657-1658: the plausibility ceiling
RateClamp ==
  /\ pc = "rate"
  /\ cpm' = ClampCpm(cpm)
  /\ cycleLog' = Append(cycleLog, "rate")
  /\ pc' = CycleNext("rate", netReady)
  /\ UNCHANGED <<resetCause, dh, retries, slice, dhcpRet, clk, counts, previousMillis, cycleAt,
                 currentMillis, zeroCount, amb, net, health, led,
                 sinceSuccess, everSuccess, recorded, drained, lastDrain, zeroRun, radmonTry, fn, rd, dhcpUp, hqSent>>

\* lines 1661-1669: DHT sampling with exponential smoothing
DhtSample(env) ==
  /\ pc = "dht"
  /\ \E t \in env.temps, h \in env.hums :
       LET a == DhtUpdate(interiorTempC, interiorHum, t, h)
       IN  interiorTempC' = a.t /\ interiorHum' = a.h
  /\ pc' = CycleNext("dht", netReady)
  /\ UNCHANGED <<resetCause, dh, retries, slice, dhcpRet, clk, meas, net, health, led, hist, fn, rd, dhcpUp, hqSent>>

\* lines 1672-1674: zero count tracking
ZeroTracking ==
  /\ pc = "zero"
  /\ zeroCount' = ZeroTrack(zeroCount, cpm)
  /\ zeroRun' = IF cpm = 0 THEN zeroRun + 1 ELSE 0
  /\ pc' = CycleNext("zero", netReady)
  /\ UNCHANGED <<resetCause, dh, retries, slice, dhcpRet, clk, counts, cpm, previousMillis, cycleAt,
                 currentMillis, amb, net, health, led, sinceSuccess,
                 everSuccess, recorded, drained, lastDrain, radmonTry,
                 cycleLog, fn, rd, dhcpUp, hqSent>>

\* lines 1677-1679 and the test of line 1691
StaleDetect ==
  /\ pc = "stale"
  /\ lastFailReason' =
       IF lastSuccessMillis # 0
          /\ ClockSub(currentMillis, lastSuccessMillis) > RADMON_FAIL_TIMEOUT
       THEN FAIL_NO_OK ELSE lastFailReason
  /\ pc' = CycleNext("stale", netReady)
  /\ UNCHANGED <<resetCause, dh, retries, slice, dhcpRet, clk, meas, amb, netReady,
                 lastSuccessMillis, lastHttpStatusCode, hqHttpStatusCode,
                 lastDhcpRetry, health, led, hist, fn, rd, dhcpUp, hqSent>>

\* the fail reason uploadToRadmon() records, with 204 not counted a success
RadmonFailOnly200(conn, code) ==
  IF ~conn THEN FAIL_CONNECT
  ELSE IF code = 200 THEN FAIL_NONE
  ELSE FAIL_NO_OK

\* lines 1459-1494: the fail reason uploadToRadmon() records
RadmonFail(conn, code) ==
  IF ~conn THEN FAIL_CONNECT
  ELSE IF code = 200 \/ code = 204 THEN FAIL_NONE
  ELSE FAIL_NO_OK

\* uploadToRadmon(): connect, send the GET, read the status line for at most
\* HTTP_TIMEOUT ticks (d ticks here), classify the outcome
uploadToRadmon(env) ==
  /\ pc = "upload"
  /\ \E conn \in env.conn, code \in env.codes, d \in env.readTicks :
       /\ d < HTTP_TIMEOUT \/ code = 0
       /\ conn \/ (d = 0 /\ code = 0)
       /\ uptime + d <= env.horizon
       /\ IF conn /\ WouldBite(d)
          THEN /\ pc' = "bitten"
               /\ UNCHANGED <<clk, net, sinceSuccess, everSuccess, radmonTry,
                              cycleLog>>
          ELSE /\ Elapse(d)
               /\ lastFailReason' = RadmonFail(conn, code)
               /\ lastHttpStatusCode' = IF conn THEN code ELSE 0
               /\ IF RadmonFail(conn, code) = FAIL_NONE
                  THEN /\ lastSuccessMillis' = now'
                       /\ sinceSuccess' = 0
                       /\ everSuccess' = TRUE
                  ELSE /\ sinceSuccess' = Aged(d)
                       /\ UNCHANGED <<lastSuccessMillis, everSuccess>>
               /\ radmonTry' = [conn |-> conn, code |-> code, at |-> now',
                                prevSuccess |-> lastSuccessMillis]
               /\ cycleLog' = Append(cycleLog, "primary")
               /\ pc' = CycleNext("upload", netReady)
               /\ UNCHANGED <<netReady, hqHttpStatusCode, lastDhcpRetry>>
  /\ UNCHANGED <<resetCause, dh, retries, slice, dhcpRet, meas, amb, health, led, recorded,
                 drained, lastDrain, zeroRun, fn, rd, dhcpUp, hqSent>>

\* the status ping storing its status code in the primary report's variable
PingStatusIntoPrimary(sent, code, primary, hq) ==
  [primary |-> IF sent THEN code ELSE primary, hq |-> hq]

\* lines 1559-1560: the two status-code globals after sendStatusPing(); sent
\* is false when the function returned before or at the failed connect
PingStatus(sent, code, primary, hq) ==
  [primary |-> primary, hq |-> IF sent THEN code ELSE hq]

\* a request that reports the status code of the previous status ping
PingRequestOwnCode(t, cpmV, h, primaryCode, hqCode, fail, z) ==
  [at |-> t, cpm |-> cpmV, rad |-> h.radState, level |-> h.level,
   http |-> hqCode, fail |-> fail, z |-> z]

\* lines 1503-1557: the fields of the GET that sendStatusPing() prints, read
\* from the globals at the time of the call (t is the time since the start)
PingRequest(t, cpmV, h, primaryCode, hqCode, fail, z) ==
  [at |-> t, cpm |-> cpmV, rad |-> h.radState, level |-> h.level,
   http |-> primaryCode, fail |-> fail, z |-> z]

\* sendStatusPing(): link test, connect, send the GET built from the globals,
\* read the status line for at most HTTP_TIMEOUT ticks (d ticks here)
sendStatusPing(env) ==
  /\ pc = "ping"
  /\ \E link \in env.link, conn \in env.conn, code \in env.hqCodes,
        d \in env.readTicks :
       /\ d < HTTP_TIMEOUT \/ code = 0
       /\ (link /\ conn) \/ (d = 0 /\ code = 0)
       /\ link \/ ~conn
       /\ uptime + d <= env.horizon
       /\ hqSent' = IF link /\ conn
                    THEN PingRequest(uptime, cpm, health, lastHttpStatusCode,
                                     hqHttpStatusCode, lastFailReason, zeroCount)
                    ELSE hqSent
       /\ IF link /\ conn /\ WouldBite(d)
          THEN /\ pc' = "bitten"
               /\ UNCHANGED <<clk, lastHttpStatusCode, hqHttpStatusCode,
                              sinceSuccess, cycleLog>>
          ELSE /\ Elapse(d)
               /\ sinceSuccess' = Aged(d)
               /\ LET st == PingStatus(link /\ conn, code, lastHttpStatusCode,
                                       hqHttpStatusCode)
                  IN  /\ lastHttpStatusCode' = st.primary
                      /\ hqHttpStatusCode' = st.hq
               /\ cycleLog' = IF link THEN Append(cycleLog, "secondary")
                              ELSE cycleLog
               /\ pc' = CycleNext("ping", netReady)
  /\ UNCHANGED <<resetCause, dh, retries, slice, dhcpRet, meas, amb, netReady, lastFailReason,
                 lastSuccessMillis, lastDhcpRetry, health,
                 led, everSuccess, recorded, drained, lastDrain, zeroRun, radmonTry, fn, rd, dhcpUp>>

\* updateHealthModel() as called at line 1697
updateHealthModel ==
  /\ pc = "health"
  /\ health' = HealthOf(cpm, zeroCount, interiorTempC, lastFailReason,
                        lastSuccessMillis, now)
  /\ cycleLog' = Append(cycleLog, "aggregate")
  /\ hqSent' = NoPing
  /\ pc' = CycleNext("health", netReady)
  /\ UNCHANGED <<resetCause, dh, retries, slice, dhcpRet, clk, meas, amb, net, led,
                 sinceSuccess, everSuccess, recorded, drained, lastDrain, zeroRun, radmonTry, fn, rd, dhcpUp>>

\* updateStatusLED() as called at line 1698
updateStatusLED ==
  /\ pc = "led"
  /\ LET a == LedForLevel(health.level)
     IN  setLedState(a.r, a.g, a.b, a.flash, now)
  /\ cycleLog' = Append(cycleLog, "indicator")
  /\ pc' = CycleNext("led", netReady)
  /\ UNCHANGED <<resetCause, dh, retries, slice, dhcpRet, clk, meas, amb, net, health,
                 sinceSuccess, everSuccess, recorded, drained, lastDrain, zeroRun, radmonTry, fn, rd, dhcpUp, hqSent>>

\* line 1699: the wdt_reset() that ends a window cycle
WdtKick ==
  /\ pc = "wdt_kick"
  /\ wdtAge' = 0
  /\ pc' = CycleNext("wdt_kick", netReady)
  /\ UNCHANGED <<resetCause, dh, retries, slice, dhcpRet, now, wdtArmed, uptime, meas, amb,
                 net, health, led, hist, fn, rd, dhcpUp, hqSent>>

\* ledTick() as called at line 1703, which ends the pass
ledTick ==
  /\ pc = "led_tick"
  /\ IF TickDue(ledFlash, ClockSub(now, ledLastToggle))
     THEN /\ ledLastToggle' = now
          /\ ledOn' = ~ledOn
          /\ pins' = AppliedPins(ledOn', ledR, ledG, ledB)
          /\ UNCHANGED <<ledR, ledG, ledB, ledFlash>>
     ELSE UNCHANGED led
  /\ pc' = "loop_top"
  /\ UNCHANGED <<resetCause, dh, retries, slice, dhcpRet, clk, meas, amb, net, health, hist, fn, rd, dhcpUp, hqSent>>

\* the DHCP server of the network comes up
DhcpServer ==
  /\ ~dhcpUp
  /\ dhcpUp' = TRUE
  /\ UNCHANGED <<ctl, clk, meas, amb, net, health, led, hist, fn, rd, hqSent>>

\* ------------------------------------------------------------------------
\* The firmware under an environment env: the sets its inputs are drawn from
\* ------------------------------------------------------------------------
Firmware(env) ==
  \/ Setup(env)
  \/ DhcpTry(env)
  \/ DhcpPause(env)
  \/ SetupFinish
  \/ LoopTop(env)
  \/ IdlePasses(env)
  \/ WindowCheck
  \/ DrainRead
  \/ DrainClear(env)
  \/ RateClamp
  \/ DhtSample(env)
  \/ ZeroTracking
  \/ StaleDetect
  \/ uploadToRadmon(env)
  \/ sendStatusPing(env)
  \/ updateHealthModel
  \/ updateStatusLED
  \/ WdtKick
  \/ ledTick
  \/ tube_impulse(env)
  \/ McuReset

\* bounds of the main environment
MainWindows == 4

EnvMain ==
  [levels |-> {30, 300, CPM_MAX_VALID, CPM_MAX_VALID + 1}, track |-> FALSE,
   bootTicks |-> {3}, dhcpOk |-> BOOLEAN, dhcpTicks |-> {0}, server |-> FALSE,
   passTicks |-> {0}, skip |-> TRUE,
   temps |-> {NaN, 250}, hums |-> {50},
   conn |-> BOOLEAN, codes |-> {0, 200, 204, 500}, hqCodes |-> {0},
   readTicks |-> {0, HTTP_TIMEOUT}, link |-> BOOLEAN,
   horizon |-> MainWindows * LOG_PERIOD + LOG_PERIOD \div 2]

Next == Firmware(EnvMain)

Spec == Init /\ [][Next]_vars

\* the interrupt against the drain: single pulses, every pulse accounted
EnvIsr ==
  [levels |-> 1..MaxPulses, track |-> TRUE,
   bootTicks |-> {3}, dhcpOk |-> BOOLEAN, dhcpTicks |-> {0}, server |-> FALSE,
   passTicks |-> {0}, skip |-> TRUE,
   temps |-> {250}, hums |-> {50},
   conn |-> {TRUE}, codes |-> {0, 200}, hqCodes |-> {0},
   readTicks |-> {0, HTTP_TIMEOUT}, link |-> {TRUE},
   horizon |-> LOG_PERIOD + LOG_PERIOD \div 2]

NextIsr == Firmware(EnvIsr)

SpecIsr == Init /\ [][NextIsr]_vars

\* long runs, past the staleness timeout, the DHCP retry period and the
\* wrap of the clock
LongWindows == 3

EnvLong ==
  [levels |-> {30}, track |-> FALSE,
   bootTicks |-> {3}, dhcpOk |-> BOOLEAN, dhcpTicks |-> {0}, server |-> FALSE,
   passTicks |-> {0}, skip |-> TRUE,
   temps |-> {250}, hums |-> {50},
   conn |-> {TRUE}, codes |-> {0, 200}, hqCodes |-> {0},
   readTicks |-> {0, HTTP_TIMEOUT}, link |-> {TRUE},
   horizon |-> ClockMod + LongWindows * LOG_PERIOD]

NextLong == Firmware(EnvLong)

SpecLong == Init /\ [][NextLong]_vars

\* the periodic DHCP retry of a degraded device: Ethernet.begin() succeeds at
\* once when a server answers; without one it fails at once (no link) or
\* after its own timeout, which is longer than the watchdog's
RetryWindows == 25

EnvRetry ==
  [levels |-> {30}, track |-> FALSE,
   bootTicks |-> {3}, dhcpOk |-> BOOLEAN, dhcpTicks |-> {0, WDTO_8S - 1, WDTO_8S}, server |-> TRUE,
   passTicks |-> {0}, skip |-> TRUE,
   temps |-> {250}, hums |-> {50},
   conn |-> {TRUE}, codes |-> {200}, hqCodes |-> {0},
   readTicks |-> {0}, link |-> {TRUE},
   horizon |-> RetryWindows * LOG_PERIOD]

NextRetry == Firmware(EnvRetry) \/ DhcpServer

\* loop() is called again whenever it returns, and millis() advances while
\* it runs: the passes of loop() do not repeat for ever at one instant
SpecRetry ==
  /\ Init /\ [][NextRetry]_vars
  /\ WF_vars(Firmware(EnvRetry))
  /\ SF_vars(IdlePasses(EnvRetry))

\* the indicator: every level, and reports that take an odd or an even
\* number of flash periods, so that a cycle meets the flash in either phase
LedWindows == 3

EnvLed ==
  [levels |-> {0, 30, 150, 300}, track |-> FALSE,
   bootTicks |-> {3}, dhcpOk |-> BOOLEAN, dhcpTicks |-> {0}, server |-> FALSE,
   passTicks |-> {0}, skip |-> TRUE,
   temps |-> {250}, hums |-> {50},
   conn |-> {TRUE}, codes |-> {0, 200}, hqCodes |-> {0},
   readTicks |-> {0, LED_FLASH_PERIOD, HTTP_TIMEOUT}, link |-> {TRUE},
   horizon |-> LedWindows * LOG_PERIOD + LOG_PERIOD \div 2]

NextLed == Firmware(EnvLed)

SpecLed == Init /\ [][NextLed]_vars

\* passes of loop() that take one tick each, so that ledTick() runs at every
\* age of the indicator state
TickWindows == 2

EnvTick ==
  [levels |-> {30, 300}, track |-> FALSE,
   bootTicks |-> {3}, dhcpOk |-> BOOLEAN, dhcpTicks |-> {0}, server |-> FALSE,
   passTicks |-> {LED_FLASH_PERIOD}, skip |-> TRUE,
   temps |-> {250}, hums |-> {50},
   conn |-> {TRUE}, codes |-> {0, 200}, hqCodes |-> {0},
   readTicks |-> {0, HTTP_TIMEOUT}, link |-> {TRUE},
   horizon |-> TickWindows * LOG_PERIOD + LOG_PERIOD \div 2]

NextTick == Firmware(EnvTick)

SpecTick == Init /\ [][NextTick]_vars

\* a silent tube under every network state and interior temperature
FaultWindows == 3

EnvFault ==
  [levels |-> {30}, track |-> FALSE,
   bootTicks |-> {3}, dhcpOk |-> BOOLEAN, dhcpTicks |-> {0}, server |-> FALSE,
   passTicks |-> {0}, skip |-> TRUE,
   temps |-> {250, 550, 650}, hums |-> {50},
   conn |-> BOOLEAN, codes |-> {0, 200}, hqCodes |-> {0},
   readTicks |-> {0, HTTP_TIMEOUT}, link |-> {TRUE},
   horizon |-> FaultWindows * LOG_PERIOD + LOG_PERIOD \div 2]

NextFault == Firmware(EnvFault)

SpecFault == Init /\ [][NextFault]_vars

\* the status ping against every kind of outcome of its own
PingWindows == 2

EnvPing ==
  [levels |-> {30}, track |-> FALSE,
   bootTicks |-> {3}, dhcpOk |-> BOOLEAN, dhcpTicks |-> {0}, server |-> FALSE,
   passTicks |-> {0}, skip |-> TRUE,
   temps |-> {250}, hums |-> {50},
   conn |-> BOOLEAN, codes |-> {0, 200, 500}, hqCodes |-> {0, 200, 500},
   readTicks |-> {0, HTTP_TIMEOUT}, link |-> BOOLEAN,
   horizon |-> PingWindows * LOG_PERIOD + LOG_PERIOD \div 2]

NextPing == Firmware(EnvPing)

SpecPing == Init /\ [][NextPing]_vars

\* long runs of windows, projected on the statements that touch the zero
\* streak: the rate of lines 1655-1658, the streak of lines 1672-1674 and
\* the health record of line 1697; a window has no pulse, some, or too many
ZeroWindows == 258
ZeroLevels == {0, 30, CPM_MAX_VALID + 1}

InitZero ==
  /\ pc = "windows" /\ now = 0 /\ InitData /\ RdIdle
  /\ fnArg = <<>> /\ fnRes = <<>>

ZeroCycle ==
  /\ pc = "windows"
  /\ \E c \in ZeroLevels :
       LET r == ClampCpm(c)
           z == ZeroTrack(zeroCount, r)
       IN  /\ r = 0 => zeroRun < ZeroWindows
           /\ cpm' = r
           /\ zeroCount' = z
           /\ zeroRun' = IF r = 0 THEN zeroRun + 1 ELSE 0
           /\ health' = HealthOf(r, z, interiorTempC, lastFailReason,
                                 lastSuccessMillis, now)
  /\ UNCHANGED <<ctl, clk, counts, previousMillis, cycleAt, currentMillis, amb, net, led,
                 sinceSuccess, everSuccess, recorded, drained, lastDrain,
                 radmonTry, cycleLog, fn, rd, dhcpUp, hqSent>>

SpecZero == InitZero /\ [][ZeroCycle]_vars

\* the two reports with the link up: every outcome of the primary one
ReportWindows == 2

EnvReports ==
  [levels |-> {30}, track |-> FALSE,
   bootTicks |-> {3}, dhcpOk |-> BOOLEAN, dhcpTicks |-> {0}, server |-> FALSE,
   passTicks |-> {0}, skip |-> TRUE,
   temps |-> {250}, hums |-> {50},
   conn |-> BOOLEAN, codes |-> {0, 200, 204, 500}, hqCodes |-> {0, 200},
   readTicks |-> {0, HTTP_TIMEOUT}, link |-> {TRUE},
   horizon |-> ReportWindows * LOG_PERIOD + LOG_PERIOD \div 2]

NextReports == Firmware(EnvReports)

SpecReports == Init /\ [][NextReports]_vars

\* ------------------------------------------------------------------------
\* readHttpStatusCode(): the line-oriented status parser
\* ------------------------------------------------------------------------
\* bytes are one-character strings; the two line-control bytes go by name
CR == "CR"
LF == "LF"
SP == " "
LINE_SIZE == 64
Blanks == {SP, "TAB"}
Digits == <<"0", "1", "2", "3", "4", "5", "6", "7", "8", "9">>
IsDigit(c) == \E k \in 1..10 : Digits[k] = c
DigitVal(c) == (CHOOSE k \in 1..10 : Digits[k] = c) - 1

\* a prefix test that stops after the four letters
StartsWithHttpNoSlash(l) ==
  Len(l) >= 4 /\ SubSeq(l, 1, 4) = <<"H", "T", "T", "P">>

\* strncmp(line, "HTTP/", 5) == 0
StartsWithHttp(l) ==
  Len(l) >= 5 /\ SubSeq(l, 1, 5) = <<"H", "T", "T", "P", "/">>

\* strrchr in place of strchr: the index of the last space
FirstSpaceIsLast(l) ==
  IF \E i \in 1..Len(l) : l[i] = SP
  THEN CHOOSE i \in 1..Len(l) : l[i] = SP /\ \A j \in (i+1)..Len(l) : l[j] # SP
  ELSE 0

\* a search that takes the end of the line for a space when there is none
FirstSpaceOrEnd(l) ==
  IF \E i \in 1..Len(l) : l[i] = SP
  THEN CHOOSE i \in 1..Len(l) : l[i] = SP /\ \A j \in 1..(i-1) : l[j] # SP
  ELSE Len(l) + 1

\* strchr(line, ' '): the index of the first space, 0 for NULL
FirstSpace(l) ==
  IF \E i \in 1..Len(l) : l[i] = SP
  THEN CHOOSE i \in 1..Len(l) : l[i] = SP /\ \A j \in 1..(i-1) : l[j] # SP
  ELSE 0

\* the decimal digits of t from index i on, accumulated onto acc
RECURSIVE AtoiDigits(_, _, _)
AtoiDigits(t, i, acc) ==
  IF i > Len(t) \/ ~IsDigit(t[i]) THEN acc
  ELSE AtoiDigits(t, i + 1, 10 * acc + DigitVal(t[i]))

\* atoi(): leading blanks, an optional sign, decimal digits; 0 without digits
atoi(t) ==
  LET nb == {i \in 1..Len(t) : t[i] \notin Blanks}
      i0 == IF nb = {} THEN Len(t) + 1
            ELSE CHOOSE i \in nb : \A j \in nb : i <= j
      sgn == i0 <= Len(t) /\ t[i0] \in {"-", "+"}
      v == AtoiDigits(t, IF sgn THEN i0 + 1 ELSE i0, 0)
  IN  IF sgn /\ t[i0] = "-" THEN 0 - v ELSE v

\* a store test that lets the index reach the size of the buffer
CanStoreFull(i) == i < LINE_SIZE

\* line 1447: idx < (sizeof(line) - 1)
CanStore(i) == i < LINE_SIZE - 1

\* a loop test that forgets the deadline
LoopCondNoDeadline(elapsed, conn) == conn

\* line 1432: while (millis() - start < timeoutMs && c.connected())
LoopCond(elapsed, conn) == elapsed < HTTP_TIMEOUT /\ conn

\* c.connected(): false once the peer has closed and nothing is left to read
Connected == rxLoop \/ ~(peerClosed /\ rxPos = rxArrived)
\* c.available()
Available == rxLoop \/ rxPos < rxArrived
\* the byte c.read() returns next
NextByte == rx[(rxPos % Len(rx)) + 1]
\* bytes that may be read before millis() must advance
MaxBurst == 80
\* longest run of loop passes without a byte to read taken as one step
SpinTicks == 5

\* the end of the first line of rx not yet delivered in full, else its end
NextArrival ==
  LET ends == {i \in (rxArrived + 1)..Len(rx) : rx[i] = LF}
  IN  IF ends = {} THEN Len(rx) ELSE CHOOSE i \in ends : \A j \in ends : i <= j

keepMain == <<retries, slice, dhcpRet, resetCause, dh, meas, amb, net, health, led,
              everSuccess, recorded, drained, lastDrain, zeroRun, radmonTry,
              cycleLog, fn, dhcpUp, hqSent>>

\* the peer's next bytes, up to the end of a line, reach the socket; the
\* parser can tell an arrival only once it has read all that came before,
\* and only at its loop test
RdArrive ==
  /\ pc \in {"rd_check", "dr_outer"} /\ rxPos = rxArrived
  /\ ~rxLoop /\ ~peerClosed /\ rxArrived < Len(rx)
  /\ rxArrived' = NextArrival
  /\ UNCHANGED <<pc, keepMain, clk, sinceSuccess, rx, rxLoop, peerCloses, peerClosed,
                 rxPos, start, line, idx, gotStatusLine, statusCode, burst, rdResult>>

\* the peer closes the connection after its last byte
RdPeerClose ==
  /\ pc \in {"rd_check", "dr_outer"} /\ rxPos = rxArrived
  /\ ~rxLoop /\ peerCloses /\ ~peerClosed /\ rxArrived = Len(rx)
  /\ peerClosed' = TRUE
  /\ UNCHANGED <<pc, keepMain, clk, sinceSuccess, rx, rxLoop, peerCloses, rxArrived,
                 rxPos, start, line, idx, gotStatusLine, statusCode, burst, rdResult>>

\* lines 1426-1430: entry, the locals are initialised
RdEnter ==
  /\ pc = "rd_entry"
  /\ start' = now /\ line' = <<>> /\ idx' = 0
  /\ gotStatusLine' = FALSE /\ statusCode' = 0
  /\ pc' = "rd_check"
  /\ UNCHANGED <<keepMain, clk, sinceSuccess, peer, rxPos, burst, rdResult>>

\* line 1432: the loop test
RdCheck ==
  /\ pc = "rd_check"
  /\ pc' = IF LoopCond(ClockSub(now, start), Connected) THEN "rd_body" ELSE "rd_ret"
  /\ UNCHANGED <<keepMain, clk, sinceSuccess, rd>>

\* ticks a run of passes without a byte to read lasts: SpinTicks, or less
\* when the deadline comes first (the loop test runs in every pass)
SpinFor == Min2(SpinTicks, HTTP_TIMEOUT - ClockSub(now, start))

\* lines 1433-1447: one pass of the loop body, or a run of passes without a
\* byte to read; a read takes no time until MaxBurst bytes were read at the
\* same value of millis()
RdBody ==
  /\ pc = "rd_body"
  /\ IF ~Available
     THEN /\ Elapse(SpinFor) /\ sinceSuccess' = Aged(SpinFor)
          /\ burst' = 0
          /\ pc' = "rd_check"
          /\ UNCHANGED <<rxPos, line, idx, gotStatusLine, statusCode>>
     ELSE /\ rxPos' = rxPos + 1
          /\ IF burst + 1 >= MaxBurst
             THEN Elapse(1) /\ sinceSuccess' = Aged(1) /\ burst' = 0
             ELSE UNCHANGED <<clk, sinceSuccess>> /\ burst' = burst + 1
          /\ LET ch == NextByte
             IN  IF ch = CR
                 THEN /\ pc' = "rd_check"
                      /\ UNCHANGED <<line, idx, gotStatusLine, statusCode>>
                 ELSE IF ch = LF
                 THEN IF ~gotStatusLine /\ StartsWithHttp(line) /\ FirstSpace(line) # 0
                      THEN /\ statusCode' = atoi(SubSeq(line, FirstSpace(line) + 1,
                                                        Len(line)))
                           /\ gotStatusLine' = TRUE
                           /\ pc' = "rd_ret"
                           /\ UNCHANGED <<line, idx>>
                      ELSE /\ idx' = 0 /\ line' = <<>>
                           /\ pc' = "rd_check"
                           /\ UNCHANGED <<gotStatusLine, statusCode>>
                 ELSE /\ IF CanStore(idx)
                         THEN line' = Append(line, ch) /\ idx' = idx + 1
                         ELSE UNCHANGED <<line, idx>>
                      /\ pc' = "rd_check"
                      /\ UNCHANGED <<gotStatusLine, statusCode>>
  /\ UNCHANGED <<keepMain, peer, start, rdResult>>

\* lines 1450-1451: the return value
RdReturn ==
  /\ pc = "rd_ret"
  /\ rdResult' = IF ~gotStatusLine THEN 0 ELSE statusCode
  /\ pc' = "rd_done"
  /\ UNCHANGED <<keepMain, clk, sinceSuccess, peer, rxPos, start, line, idx,
                 gotStatusLine, statusCode, burst>>

NextReader == RdEnter \/ RdCheck \/ RdBody \/ RdReturn \/ RdArrive \/ RdPeerClose

\* ------------------------------------------------------------------------
\* readHttpStatusCode() on its own: a peer and a byte stream are drawn, the
\* parser runs to its return
\* ------------------------------------------------------------------------
Rep(c, n) == [i \in 1..n |-> c]

Line204 ==
  <<"H", "T", "T", "P", "/", "1", ".", "1", " ", "2", "0", "4", " ", "N",
    "o", " ", "C", "o", "n", "t", "e", "n", "t">>
Line200 ==
  <<"H", "T", "T", "P", "/", "1", ".", "1", " ", "2", "0", "0", " ", "O",
    "K">>
Line500 ==
  <<"H", "T", "T", "P", "/", "1", ".", "0", " ", "5", CR, "0", "0">>
LineNoSpace ==
  <<"H", "T", "T", "P", "/", "1", ".", "1">>
LineTwoSpaces ==
  <<"H", "T", "T", "P", "/", "2", " ", " ", "3", "0", "1">>
LineNoNumber ==
  <<"H", "T", "T", "P", "/", "1", ".", "1", " ", "O", "K">>
LineSigned ==
  <<"H", "T", "T", "P", "/", "1", " ", "-", "7">>
LineHeader ==
  <<"D", "a", "t", "e", ":", " ", "x">>
LineLeadingSpace ==
  <<" ", "H", "T", "T", "P", "/", "1", ".", "1", " ", "2", "0", "0">>
LineHttps ==
  <<"H", "T", "T", "P", "S", " ", "3", "0", "1">>
\* over-long lines: no status line; the first space beyond the buffer; the
\* digits cut by the buffer; the status code well inside the buffer
LineLong == Rep("x", LINE_SIZE + 6)
LineLongFar == <<"H", "T", "T", "P", "/">> \o Rep("x", LINE_SIZE - 6) \o <<SP, "2", "0", "0">>
LineLongCut == <<"H", "T", "T", "P", "/">> \o Rep("x", LINE_SIZE - 9) \o <<SP, "2", "0", "0">>
LineLongOk == <<"H", "T", "T", "P", "/", "1", SP, "4", "0", "4", SP>> \o Rep("y", LINE_SIZE - 4)

FirstLines ==
  {Line204, Line200, Line500, LineNoSpace, LineTwoSpaces, LineNoNumber,
   LineSigned, LineHeader, LineLeadingSpace, LineHttps, <<>>,
   LineLong, LineLongFar, LineLongCut, LineLongOk}
FollowLines == {Line200, LineNoSpace, LineHeader}
Terminators == {<<LF>>, <<CR, LF>>}
Tails == {<<>>, Line200}

\* lines in one stream
MaxLines == 2

LineSeqs ==
  {<<>>} \cup
  UNION {{[i \in 1..n |-> IF i = 1 THEN f ELSE g[i]] :
            f \in FirstLines, g \in [1..n -> FollowLines]} : n \in 1..MaxLines}

RECURSIVE Joined(_, _)
Joined(ls, term) ==
  IF ls = <<>> THEN <<>> ELSE Head(ls) \o term \o Joined(Tail(ls), term)

\* a complete header-less response
Resp204 == Line204 \o <<CR, LF, CR, LF>>

Streams == {Joined(ls, term) \o tail :
              ls \in LineSeqs, term \in Terminators, tail \in Tails}
           \cup {Resp204}

\* an endless peer repeats one line that is no status line
EndlessStreams == {LineHeader \o <<CR, LF>>}

\* millis() at the call: far from the wrap of the clock, and just before it
ReaderStarts == {0, ClockMod - 4}

InitReader ==
  /\ pc = "rd_entry" /\ now \in ReaderStarts /\ InitData
  /\ \/ rxLoop = FALSE /\ rx \in Streams /\ peerCloses \in BOOLEAN
     \/ rxLoop = TRUE /\ rx \in EndlessStreams /\ peerCloses = FALSE
  /\ rxArrived = 0 /\ rxPos = 0 /\ peerClosed = FALSE
  /\ start = 0 /\ line = <<>> /\ idx = 0 /\ gotStatusLine = FALSE
  /\ statusCode = 0 /\ burst = 0 /\ rdResult = 0
  /\ fnArg = <<>> /\ fnRes = <<>>

\* each pass of the loop and each step of the function takes place in time
SpecReader == InitReader /\ [][NextReader]_vars /\ WF_vars(NextReader)

\* ------------------------------------------------------------------------
\* The response drain of sendStatusPing() in firmware v1.4.3 (lines 313-318)
\* ------------------------------------------------------------------------
DRAIN_TIMEOUT_MS == 2000
DRAIN_TIMEOUT == DRAIN_TIMEOUT_MS \div TickMs

\* line 314: the test of the outer loop
DrainCond(elapsed, conn) == elapsed < DRAIN_TIMEOUT /\ conn

\* line 313: start = millis(); the call is made from loop() with the watchdog
\* armed (line 418), last reset before uploadToRadmon(), which returned at
\* once or after its 5 s wait
DrEnter ==
  /\ pc = "dr_entry"
  /\ start' = now
  /\ \E age \in {0, HTTP_TIMEOUT} :
       /\ wdtArmed' = TRUE /\ wdtAge' = age
       /\ UNCHANGED <<now, uptime>>
  /\ pc' = "dr_outer"
  /\ UNCHANGED <<keepMain, sinceSuccess, peer, rxPos, line, idx, gotStatusLine,
                 statusCode, burst, rdResult>>

\* line 314: while (millis() - start < 2000UL && statusClient.connected())
DrOuter ==
  /\ pc = "dr_outer"
  /\ pc' = IF DrainCond(ClockSub(now, start), Connected) THEN "dr_inner"
           ELSE "dr_done"
  /\ UNCHANGED <<keepMain, clk, sinceSuccess, rd>>

\* ticks a run of passes of the outer loop without a byte to read lasts
DrainSpin ==
  IF ClockSub(now, start) < DRAIN_TIMEOUT
  THEN Min2(SpinTicks, DRAIN_TIMEOUT - ClockSub(now, start)) ELSE 0

\* lines 315-317: while (statusClient.available()) (void)statusClient.read();
\* one read, or the exit of the inner loop followed by a run of passes of
\* the outer loop in which nothing is available; the watchdog expires when
\* WDTO_8S has passed since its last reset
DrInner ==
  /\ pc = "dr_inner"
  /\ IF Available
     THEN /\ rxPos' = rxPos + 1
          /\ IF burst + 1 >= MaxBurst
             THEN IF WouldBite(1)
                  THEN /\ pc' = "bitten"
                       /\ UNCHANGED <<clk, sinceSuccess, burst>>
                  ELSE /\ Elapse(1) /\ sinceSuccess' = Aged(1) /\ burst' = 0
                       /\ UNCHANGED pc
             ELSE /\ burst' = burst + 1
                  /\ UNCHANGED <<pc, clk, sinceSuccess>>
     ELSE /\ IF WouldBite(DrainSpin)
             THEN /\ pc' = "bitten"
                  /\ UNCHANGED <<clk, sinceSuccess, burst>>
             ELSE /\ Elapse(DrainSpin) /\ sinceSuccess' = Aged(DrainSpin)
                  /\ burst' = 0
                  /\ pc' = "dr_outer"
          /\ UNCHANGED rxPos
  /\ UNCHANGED <<keepMain, peer, start, line, idx, gotStatusLine, statusCode,
                 rdResult>>

NextDrain == DrEnter \/ DrOuter \/ DrInner \/ RdArrive \/ RdPeerClose

InitDrain ==
  /\ pc = "dr_entry" /\ now \in ReaderStarts /\ InitData
  /\ \/ rxLoop = FALSE /\ rx \in Streams /\ peerCloses \in BOOLEAN
     \/ rxLoop = TRUE /\ rx \in EndlessStreams /\ peerCloses = FALSE
  /\ rxArrived = 0 /\ rxPos = 0 /\ peerClosed = FALSE
  /\ start = 0 /\ line = <<>> /\ idx = 0 /\ gotStatusLine = FALSE
  /\ statusCode = 0 /\ burst = 0 /\ rdResult = 0
  /\ fnArg = <<>> /\ fnRes = <<>>

\* each pass of the loops takes place in time
SpecDrain == InitDrain /\ [][NextDrain]_vars /\ WF_vars(NextDrain)

\* ------------------------------------------------------------------------
\* The pure helpers on their own: an argument is drawn, the helper applied
\* ------------------------------------------------------------------------
InitClassify ==
  /\ InitGlobals
  /\ fnArg \in {<<r>> : r \in 0..MaxCpmArg}
  /\ fnRes = <<>>

ApplyClassify ==
  /\ fnRes = <<>>
  /\ fnRes' = <<getRadiationState(fnArg[1])>>
  /\ UNCHANGED <<ctl, clk, meas, amb, net, health, led, hist, fnArg, rd, dhcpUp, hqSent>>

SpecClassify == InitClassify /\ [][ApplyClassify]_vars

InitHealthLevel ==
  /\ InitGlobals
  /\ fnArg \in {<<rs, sf, tw, th, ok>> :
                  rs \in RadState, sf \in BOOLEAN, tw \in BOOLEAN,
                  th \in BOOLEAN, ok \in BOOLEAN}
  /\ fnRes = <<>>

ApplyHealthLevel ==
  /\ fnRes = <<>>
  /\ fnRes' = <<HealthLevel(fnArg[1], fnArg[2], fnArg[3], fnArg[4], fnArg[5])>>
  /\ UNCHANGED <<ctl, clk, meas, amb, net, health, led, hist, fnArg, rd, dhcpUp, hqSent>>

SpecHealthLevel == InitHealthLevel /\ [][ApplyHealthLevel]_vars

\* the DHT step on its own: stored values both unknown or both known (the
\* two are only ever written together); readings absent, at and around the
\* limits of the plausible range
DhtStoredTemps == {TEMP_UNKNOWN, -395, 0, 250, 600}
DhtStoredHums == {HUM_UNKNOWN, 0, 50, 100}
DhtTemps == {NaN, -401, -400, -399, 250, 799, 800}
DhtHums == {NaN, -1, 0, 50, 100, 101}

InitDht ==
  /\ InitGlobals
  /\ fnArg \in {a \in DhtStoredTemps \X DhtStoredHums \X DhtTemps \X DhtHums :
                  (a[1] = TEMP_UNKNOWN) <=> (a[2] = HUM_UNKNOWN)}
  /\ fnRes = <<>>

ApplyDht ==
  /\ fnRes = <<>>
  /\ LET a == DhtUpdate(fnArg[1], fnArg[2], fnArg[3], fnArg[4])
     IN  fnRes' = <<a.t, a.h>>
  /\ UNCHANGED <<ctl, clk, meas, amb, net, health, led, hist, fnArg, rd, dhcpUp, hqSent>>

SpecDht == InitDht /\ [][ApplyDht]_vars

\* ------------------------------------------------------------------------
\* Properties
\* ------------------------------------------------------------------------
\* positions of the main context inside loop(), between two window cycles
Between == pc \in {"loop_top", "win_check", "led_tick"}
\* positions of a window cycle at which line 1657 has already run
AfterRate == pc \in {"dht", "zero", "stale", "upload", "ping", "health",
                     "led", "wdt_kick"}

Range(f) == {f[i] : i \in DOMAIN f}

\* C3: outside the two statements that compute it, the rate is at most the
\* plausibility ceiling; after line 1657 it is the drained count times the
\* multiplier when that product is at most the ceiling and 0 when it is
\* larger; and the zero-count step adds one to the streak whenever the rate
\* is 0, also when the 0 was forced by the ceiling.
RateOfDrain ==
  IF lastDrain * Multiplier <= CPM_MAX_VALID THEN lastDrain * Multiplier ELSE 0
C3_RateState ==
  /\ pc \notin {"drain_clear", "rate"} => cpm <= CPM_MAX_VALID
  /\ (AfterRate \/ Between) /\ pc # "boot" => cpm = RateOfDrain
C3_ZeroStep ==
  pc = "zero" /\ pc' # "zero" /\ cpm = 0 /\ zeroCount < ZERO_COUNT_MAX
    => zeroCount' = zeroCount + 1
C3_PlausibilityCeiling == [](C3_RateState) /\ [][C3_ZeroStep]_vars
\* a window whose count exceeded the ceiling, whose rate was forced to 0 and
\* whose zero-count step has counted it
C3_Witness ==
  /\ pc = "stale" /\ lastDrain * Multiplier > CPM_MAX_VALID
  /\ cpm = 0 /\ zeroCount >= 1

\* C4: whenever the health model is up to date (between window cycles and
\* from the indicator update on), sensorFault is true exactly when the
\* current run of consecutive zero-rate windows has length >= 3, and the
\* streak counter equals that length.
HealthCurrent == pc \in {"led", "wdt_kick", "led_tick", "loop_top", "win_check"}
C4_SensorFaultIffStreak ==
  /\ pc \in {"stale", "upload", "ping", "health"} \/ HealthCurrent
       => zeroCount = zeroRun
  /\ HealthCurrent /\ zeroRun > 0
       => health.sensorFault = (zeroRun >= ZERO_CPM_FAULT_COUNT)
  /\ HealthCurrent /\ cpm # 0 => zeroCount = 0 /\ ~health.sensorFault
\* the fault was raised by a streak of three
C4_WitnessRaised ==
  /\ pc = "led" /\ zeroRun = ZERO_CPM_FAULT_COUNT /\ health.sensorFault
\* the fault stands from the previous cycle, this cycle's rate is not zero
\* and has reset the streak, and the health update of the cycle is next
C4_Witness ==
  /\ pc = "health" /\ health.sensorFault /\ cpm # 0 /\ zeroCount = 0

\* C7: at every loop-pass boundary (after setup and after every pass) the
\* configured colour and the flashing flag are the ones of health.level:
\* 0 green solid, 1 yellow solid, 2 red solid, 3 red flashing.
C7_IndicatorMatchesLevel ==
  pc = "loop_top" =>
    /\ health.level \in 0..3
    /\ health.level = 0 => <<ledR, ledG, ledB, ledFlash>> = <<LOW, HIGH, LOW, FALSE>>
    /\ health.level = 1 => <<ledR, ledG, ledB, ledFlash>> = <<HIGH, HIGH, LOW, FALSE>>
    /\ health.level = 2 => <<ledR, ledG, ledB, ledFlash>> = <<HIGH, LOW, LOW, FALSE>>
    /\ health.level = 3 => <<ledR, ledG, ledB, ledFlash>> = <<HIGH, LOW, LOW, TRUE>>
C7_Witness ==
  /\ pc = "loop_top" /\ health.level = 2
  /\ <<ledR, ledG, ledB, ledFlash>> = <<HIGH, LOW, LOW, FALSE>>
  /\ cycleLog # <<>>

CycleOrder == <<"drain", "rate", "primary", "secondary", "aggregate", "indicator">>
Rank(x) == CHOOSE k \in DOMAIN CycleOrder : CycleOrder[k] = x
C9_WatchdogNeverExpires == pc # "bitten"

\* C10: when uploadToRadmon() has returned, the fail reason is the one of the
\* attempt's outcome: connect refused gives FAIL_CONNECT and status code 0;
\* status 200 or 204 gives FAIL_NONE and a last-success time equal to the
\* clock at the return; any other code, 0 included, gives FAIL_NO_OK and
\* leaves the last-success time alone.
C10_RadmonOutcome ==
  pc = "ping" =>
    /\ ~radmonTry.conn
         => /\ lastFailReason = FAIL_CONNECT /\ lastHttpStatusCode = 0
            /\ lastSuccessMillis = radmonTry.prevSuccess
    /\ radmonTry.conn /\ radmonTry.code \in {200, 204}
         => /\ lastFailReason = FAIL_NONE
            /\ lastSuccessMillis = radmonTry.at /\ radmonTry.at = now
            /\ lastHttpStatusCode = radmonTry.code
    /\ radmonTry.conn /\ radmonTry.code \notin {200, 204}
         => /\ lastFailReason = FAIL_NO_OK
            /\ lastSuccessMillis = radmonTry.prevSuccess
            /\ lastHttpStatusCode = radmonTry.code
C10_Witness ==
  /\ pc = "ping" /\ radmonTry.conn /\ radmonTry.code = 204
  /\ lastFailReason = FAIL_NONE /\ lastSuccessMillis = now

\* C1 (as stated): at every point the values returned by the drains so far
\* plus the current counter equal the number of pulses recorded.
C1_NoPulseLost == drained + counts = recorded

\* C2: the classifier is total and its bands are the stated partition:
\* Danger iff r >= 275, Warn iff 100 <= r < 275, Normal iff 20 <= r <= 40,
\* Low for every other r (r < 20 and the gap 40 < r < 100).
C2_BandsPartition ==
  fnRes # <<>> =>
    LET r == fnArg[1]
        b == fnRes[1]
    IN  /\ b \in RadState
        /\ (b = RAD_DANGER) = (r >= 275)
        /\ (b = RAD_WARN) = (r >= 100 /\ r < 275)
        /\ (b = RAD_NORMAL) = (r >= 20 /\ r <= 40)
        /\ (b = RAD_LOW) = (r < 20 \/ (r > 40 /\ r < 100))
C2_Witness == fnArg = <<50>> /\ fnRes = <<RAD_LOW>>

\* C5: the level is the maximum of the triggered floors: 3 if tempHigh or
\* Danger, else 2 if sensorFault or tempWarn or Warn, else 1 if not netOK,
\* else 0; it lies in 0..3 and is never below a triggered floor.
C5_LevelIsMaxFloor ==
  fnRes # <<>> =>
    LET rs == fnArg[1]
        sf == fnArg[2]
        tw == fnArg[3]
        th == fnArg[4]
        ok == fnArg[5]
        lvl == fnRes[1]
    IN  /\ lvl \in 0..3
        /\ lvl = IF th \/ rs = RAD_DANGER THEN 3
                 ELSE IF sf \/ tw \/ rs = RAD_WARN THEN 2
                 ELSE IF ~ok THEN 1 ELSE 0
        /\ ~ok => lvl >= 1
        /\ sf \/ tw \/ rs = RAD_WARN => lvl >= 2
        /\ th \/ rs = RAD_DANGER => lvl >= 3
C5_Witness ==
  fnArg = <<RAD_NORMAL, FALSE, TRUE, FALSE, FALSE>> /\ fnRes = <<2>>

\* C6 (as stated): right after the health model is evaluated, netOK is false
\* exactly when the last fail reason is FAIL_DHCP, or no success was ever
\* recorded, or more than the staleness timeout has passed since the last
\* recorded success.
C6_NetOkIffFresh ==
  pc = "led" =>
    health.netOK = ~ \/ lastFailReason = FAIL_DHCP
                     \/ ~everSuccess
                     \/ sinceSuccess > RADMON_FAIL_TIMEOUT

\* C11 (as stated): a primary report that fails leaves the last-success time
\* as it was, and at every health evaluation made when more than the
\* staleness timeout has passed since the last recorded success (no success
\* and no reconnect since), the level is at least 1.
C11_FailureKeepsStaleFloor ==
  /\ pc = "ping" /\ RadmonFail(radmonTry.conn, radmonTry.code) # FAIL_NONE
       => lastSuccessMillis = radmonTry.prevSuccess
  /\ pc = "led" /\ everSuccess /\ sinceSuccess > RADMON_FAIL_TIMEOUT
       => health.level >= 1

\* C12: sendStatusPing() never changes the fail reason, the last-success time
\* or the primary report's status code, whatever its own outcome (link down,
\* connect refused, any status code, timeout): across the call they keep
\* their values, so when the health update of the cycle starts they are still
\* the ones the cycle's uploadToRadmon() left.
C12_PrimaryOutcomeStands ==
  pc = "health" /\ netReady =>
    /\ lastFailReason = RadmonFail(radmonTry.conn, radmonTry.code)
    /\ lastHttpStatusCode = (IF radmonTry.conn THEN radmonTry.code ELSE 0)
    /\ lastSuccessMillis = (IF RadmonFail(radmonTry.conn, radmonTry.code) = FAIL_NONE
                            THEN radmonTry.at ELSE radmonTry.prevSuccess)
C12_PingStep ==
  pc = "ping" =>
    UNCHANGED <<lastFailReason, lastSuccessMillis, lastHttpStatusCode>>
\* outside start-up, the last-success time and the primary status code are
\* written by uploadToRadmon() and by the return of attemptDHCP() alone
C12_OnlyStep ==
  (lastSuccessMillis' # lastSuccessMillis \/ lastHttpStatusCode' # lastHttpStatusCode)
    => pc \in {"boot", "bitten", "upload", "dhcp_try"}
Consumed == [i \in 1..rxPos |-> rx[((i - 1) % Len(rx)) + 1]]
\* positions of the line feeds of a byte sequence
LfAt(b) == {i \in 1..Len(b) : b[i] = LF}
\* the line that ends just before position i: from the previous line feed
\* on, carriage returns dropped
TextBefore(b, i) ==
  LET prev == {j \in LfAt(b) : j < i}
      from == IF prev = {} THEN 1
              ELSE 1 + CHOOSE j \in prev : \A k \in prev : k <= j
  IN  SelectSeq(SubSeq(b, from, i - 1), LAMBDA c : c # CR)
\* every line of a byte sequence, the unterminated last one included
AllLines(b) == {TextBefore(b, i) : i \in LfAt(b) \cup {Len(b) + 1}}
BeginsHttp(l) ==
  /\ Len(l) >= 5
  /\ l[1] = "H" /\ l[2] = "T" /\ l[3] = "T" /\ l[4] = "P" /\ l[5] = "/"
RdElapsed == ClockSub(now, start)

\* C13: the parser returns 204 for the response whose first line is
\* "HTTP/1.1 204 No Content" followed by CR LF CR LF (whenever it has read
\* that line, and it fails to only by running into the timeout first); it
\* returns 0 when it returns without having read a byte; and it returns 0
\* when no line of the bytes it read begins with "HTTP/".
C13_ParserScenarios ==
  pc = "rd_done" =>
    /\ rx = Resp204 /\ rxPos > Len(Line204) + 1 => rdResult = 204
    /\ rx = Resp204 /\ rdResult # 204 => RdElapsed >= HTTP_TIMEOUT
    /\ rxPos = 0 => rdResult = 0
    /\ (\A l \in AllLines(Consumed) : ~BeginsHttp(l)) => rdResult = 0
\* the 204 response was read up to the line feed of its status line
C13_Witness ==
  /\ pc = "rd_done" /\ rx = Resp204 /\ rdResult = 204
  /\ rxPos = Len(Line204) + 2

\* the integer written at the start of a character sequence: blanks, an
\* optional sign, then the longest run of decimal digits (0 for an empty run)
DigitOf ==
  "0" :> 0 @@ "1" :> 1 @@ "2" :> 2 @@ "3" :> 3 @@ "4" :> 4 @@
  "5" :> 5 @@ "6" :> 6 @@ "7" :> 7 @@ "8" :> 8 @@ "9" :> 9
RECURSIVE DecValue(_)
DecValue(ds) ==
  IF ds = <<>> THEN 0
  ELSE 10 * DecValue(SubSeq(ds, 1, Len(ds) - 1)) + DigitOf[ds[Len(ds)]]
IntegerAt(t) ==
  LET lead == CHOOSE n \in 0..Len(t) :
                /\ \A k \in 1..n : t[k] \in {SP, "TAB"}
                /\ n < Len(t) => t[n + 1] \notin {SP, "TAB"}
      sign == IF lead < Len(t) /\ t[lead + 1] \in {"-", "+"} THEN 1 ELSE 0
      from == lead + sign + 1
      run == CHOOSE n \in 0..(Len(t) - from + 1) :
               /\ \A k \in from..(from + n - 1) : t[k] \in DOMAIN DigitOf
               /\ from + n <= Len(t) => t[from + n] \notin DOMAIN DigitOf
      v == DecValue(SubSeq(t, from, from + run - 1))
  IN  IF sign = 1 /\ t[lead + 1] = "-" THEN 0 - v ELSE v
HasSpace(l) == \E i \in 1..Len(l) : l[i] = SP
AfterFirstSpace(l) ==
  IF HasSpace(l)
  THEN SubSeq(l, 1 + (CHOOSE i \in 1..Len(l) :
                        l[i] = SP /\ \A j \in 1..(i - 1) : l[j] # SP), Len(l))
  ELSE <<>>
\* the part of a line the 64-byte line buffer keeps
Kept(l) == SubSeq(l, 1, Min2(Len(l), LINE_SIZE - 1))
MinOf(S) == CHOOSE i \in S : \A j \in S : i <= j
\* the parser stopped for want of time or of a connected peer with bytes left
RdGaveUp == RdElapsed >= HTTP_TIMEOUT \/ (peerClosed /\ rxPos = Len(rx))

\* C14 (as stated): with CR dropped and LF ending a line, the first complete
\* line that begins with "HTTP/" decides: the parser returns the integer
\* after that line's first space and reads nothing after that line; lines
\* not beginning with "HTTP/" are skipped.
C14_FirstHttpLineDecides ==
  pc = "rd_done" =>
    LET b == Consumed
        ends == {i \in LfAt(b) : BeginsHttp(TextBefore(b, i))}
    IN  IF ends = {} THEN rdResult = 0 /\ RdGaveUp
        ELSE /\ rxPos = MinOf(ends)
             /\ rdResult = IntegerAt(AfterFirstSpace(TextBefore(b, MinOf(ends))))

\* C14 (amended): with CR dropped, LF ending a line and each line cut to its
\* first 63 characters, the first complete line whose kept part begins with
\* "HTTP/" and contains a space decides: the parser returns the integer after
\* the first space of the kept part and reads nothing after that line; every
\* other complete line is skipped, and without a deciding line the parser
\* reads on until the timeout or the end of the connection and returns 0.
Decides(l) == BeginsHttp(Kept(l)) /\ HasSpace(Kept(l))
C14_FirstKeptStatusLineDecides ==
  pc = "rd_done" =>
    LET b == Consumed
        ends == {i \in LfAt(b) : Decides(TextBefore(b, i))}
    IN  IF ends = {} THEN rdResult = 0 /\ RdGaveUp
        ELSE /\ rxPos = MinOf(ends)
             /\ rdResult = IntegerAt(AfterFirstSpace(Kept(TextBefore(b, MinOf(ends)))))
\* a complete line beginning with "HTTP/" but without a space was skipped
\* and a later line gave the status code
C14_Witness ==
  /\ pc = "rd_done" /\ rdResult = 200
  /\ \E i \in LfAt(Consumed) :
       /\ i < rxPos
       /\ BeginsHttp(TextBefore(Consumed, i)) /\ ~HasSpace(TextBefore(Consumed, i))

\* C15: readHttpStatusCode() always returns, whatever the peer does (silent
\* and connected, sending lines without end, closing): the loop body is
\* entered only while less than the timeout has elapsed since the call, the
\* return comes at the first loop test at or after the deadline at the
\* latest, and a return without a completed status line gives 0.
C15_Deadline ==
  /\ pc = "rd_body" => RdElapsed < HTTP_TIMEOUT
  /\ pc \in {"rd_ret", "rd_done"} => RdElapsed <= HTTP_TIMEOUT
  /\ pc = "rd_done" /\ ~gotStatusLine => rdResult = 0
C15_ParserTerminates == [](C15_Deadline) /\ <>(pc = "rd_done")
\* the peer sent lines that are no status line until the deadline
C15_Witness ==
  /\ pc = "rd_done" /\ rxLoop /\ rxPos > MaxBurst
  /\ RdElapsed = HTTP_TIMEOUT /\ rdResult = 0

\* C16 (as stated): when every address-acquisition attempt of setup() has
\* failed, attemptDHCP() has made the first attempt and exactly 3 retries
\* after it, a pause has followed each retry, and the device is degraded:
\* netReady = false and lastFailReason = FAIL_DHCP.
C16_ThreeRetriesThenDegraded ==
  pc = "setup_fin" /\ ~netReady =>
    /\ attempts = 1 + DHCP_RETRIES
    /\ pauses >= DHCP_RETRIES
    /\ lastFailReason = FAIL_DHCP

\* C17: while netReady is false no window cycle reaches uploadToRadmon() or
\* sendStatusPing(), and every window cycle still drains the counter,
\* computes the rate, updates the zero streak, recomputes the health record
\* and updates the indicator from it.
C17_DegradedCycle ==
  ~netReady =>
    /\ pc \notin {"upload", "ping"}
    /\ "primary" \notin Range(cycleLog) /\ "secondary" \notin Range(cycleLog)
    /\ pc = "wdt_kick" =>
         /\ cycleLog = <<"drain", "rate", "aggregate", "indicator">>
         /\ cpm = RateOfDrain
         /\ zeroCount = zeroRun /\ (cpm = 0) = (zeroRun > 0)
         /\ health.radState = getRadiationState(cpm)
         /\ health.sensorFault = (zeroRun >= ZERO_CPM_FAULT_COUNT)
         /\ ~health.netOK /\ health.level >= 1
         /\ <<ledR, ledG, ledB, ledFlash>> =
              IF health.level = 3 THEN <<HIGH, LOW, LOW, TRUE>>
              ELSE IF health.level = 2 THEN <<HIGH, LOW, LOW, FALSE>>
              ELSE <<HIGH, HIGH, LOW, FALSE>>
\* a degraded device has measured a rate in the danger band and shows it
C17_Witness ==
  /\ ~netReady /\ pc = "wdt_kick"
  /\ cycleLog = <<"drain", "rate", "aggregate", "indicator">>
  /\ cpm = 300 /\ health.level = 3 /\ ledFlash

\* C18: after setup() address acquisition is attempted only by the periodic
\* retry of a degraded device; a periodic retry starts no earlier than 10
\* minutes after the start of the MCU and no earlier than 10 minutes after
\* the start of the previous one; a retry that succeeds leaves netReady =
\* true, lastFailReason = FAIL_NONE and lastSuccessMillis = millis(), and
\* nothing else brings a running device back from degraded; and a degraded
\* device on a network whose DHCP server has come up gets connected.
C18_RetryStep ==
  /\ retryAt' # retryAt /\ retryAt' # -1
       => /\ ~netReady /\ pc = "loop_top" /\ retryAt' = uptime'
          /\ retryAt' >= DHCP_RETRY_PERIOD
          /\ retryAt # -1 => retryAt' - retryAt >= DHCP_RETRY_PERIOD
  /\ attempts' > attempts /\ wdtArmed
       => ~netReady /\ dhcpRet = "loop" /\ retryAt # -1
  /\ pc = "dhcp_try" /\ dhcpRet = "loop" /\ netReady'
       => /\ lastFailReason' = FAIL_NONE /\ lastSuccessMillis' = now'
          /\ pc' = "win_check"
  /\ ~netReady /\ netReady'
       => (pc = "dhcp_try" /\ dhcpRet = "loop") \/ pc \in {"boot", "bitten"}
\* the latest uptime from which the model still runs to the next retry
RetryDeadline == EnvRetry.horizon - DHCP_RETRY_PERIOD - LOG_PERIOD
C18_PeriodicRetry ==
  /\ [][C18_RetryStep]_vars
  /\ [](dhcpUp /\ ~netReady /\ wdtArmed /\ uptime <= RetryDeadline
          => <>(netReady /\ wdtArmed))
\* the second periodic retry has succeeded, 20 minutes after the start
C18_Witness ==
  /\ pc = "win_check" /\ dhcpRet = "loop" /\ netReady /\ wdtArmed
  /\ retryAt >= 2 * DHCP_RETRY_PERIOD /\ uptime = retryAt
  /\ lastFailReason = FAIL_NONE /\ lastSuccessMillis = now

\* C19: in the pause of attemptDHCP() after a failed Ethernet.begin(), with
\* the watchdog armed, every 500 ms slice ends with the watchdog one slice
\* old, whatever its age when the pause was entered, and no step of the
\* pause ends in a watchdog expiry.
C19_PauseStep ==
  pc = "dhcp_pause" /\ wdtArmed
    => /\ pc' # "bitten"
       /\ slice' # slice => slice' = slice + 1 /\ wdtAge' = DHCP_SLICE
       /\ slice >= 1 => wdtAge = DHCP_SLICE
C19_PauseKeepsWatchdogFed == [][C19_PauseStep]_vars
\* the pause after the third failed attempt of a periodic retry has run all
\* its ten slices
C19_Witness ==
  /\ pc = "dhcp_pause" /\ wdtArmed /\ dhcpRet = "loop"
  /\ slice = DHCP_PAUSE_SLICES /\ pauses = 2 /\ wdtAge = DHCP_SLICE

\* C20 (as stated): no network failure ends a measurement cycle early: when
\* the main context is not inside a cycle (it is at the top of loop(), or it
\* has been stopped), the cycle of the last window that came due has run
\* through drain, rate, health and indicator.
C20_EveryCycleRunsToItsEnd ==
  pc \in {"loop_top", "bitten"} /\ cycleLog # <<>>
    => /\ cycleLog[Len(cycleLog)] = "indicator"
       /\ {"drain", "rate", "aggregate"} \subseteq Range(cycleLog)

\* C21: a window's cycle makes at most one primary and at most one secondary
\* connection attempt: the primary attempt is made at the start of the
\* window, before anything else of the cycle but drain and rate, the
\* secondary attempt right after it, whatever the outcome of the primary
\* one; and the next attempt is made at the start of the next window, a
\* logging period later (less at most the time the attempt itself took).
TimesIn(log, x) == Cardinality({i \in DOMAIN log : log[i] = x})
C21_State ==
  /\ TimesIn(cycleLog, "primary") <= 1
  /\ TimesIn(cycleLog, "secondary") <= 1
  /\ pc = "upload"
       => /\ cycleLog = <<"drain", "rate">> /\ now = previousMillis
          /\ radmonTry # NoTry
               => ClockSub(now, radmonTry.at) >= LOG_PERIOD - HTTP_TIMEOUT
  /\ pc = "ping" => cycleLog = <<"drain", "rate", "primary">>
C21_Step ==
  /\ pc = "upload" /\ pc' # pc => pc' \in {"ping", "bitten"}
  /\ pc = "ping" /\ pc' # pc => pc' \in {"health", "bitten"}
  /\ pc = "win_check" /\ pc' = "drain_read"
       => ClockSub(now, previousMillis) >= LOG_PERIOD
C21_OneAttemptPerWindow == [](C21_State) /\ [][C21_Step]_vars
\* the primary report of the previous window failed at the connect, and the
\* present window is about to make its attempt
C21_Witness ==
  /\ pc = "upload" /\ lastFailReason = FAIL_CONNECT /\ radmonTry # NoTry
  /\ ~radmonTry.conn /\ ClockSub(now, radmonTry.at) = LOG_PERIOD

\* C22 (as stated): while the level is 3 and the indicator flashes, the
\* output changes phase every flash period: the last change of phase is
\* never more than two flash periods old; and the phase changes only while
\* the indicator state is the flashing one of level 3.
C22_FlashKeepsPeriod ==
  /\ health.level = 3 /\ ledFlash
       => ClockSub(now, ledLastToggle) <= 2 * LED_FLASH_PERIOD
  /\ ~ledOn => ledFlash /\ <<ledR, ledG, ledB>> = <<HIGH, LOW, LOW>>

\* C23: the indicator update of a cycle whose health update has left level 3
\* clears ledFlash and puts the solid colour of the new level on the pins,
\* whether the flash phase was on or off; and every call of setLedState (in
\* setup(), at the end of setup() and in a cycle) stores the channel levels,
\* sets ledOn, writes the channels to the pins and sets ledLastToggle to
\* millis().
SolidPins(level) ==
  CASE level = 0 -> <<LOW, HIGH, LOW>>
    [] level = 1 -> <<HIGH, HIGH, LOW>>
    [] level = 2 -> <<HIGH, LOW, LOW>>
C23_EntryStep ==
  /\ pc \in {"led", "setup_fin", "boot"} /\ pc' # pc
       => /\ ledOn' /\ pins' = <<ledR', ledG', ledB'>>
          /\ ledLastToggle' = IF pc = "boot" THEN now ELSE now'
  /\ pc = "led" /\ pc' # pc /\ ledFlash /\ health.level < 3
       => ~ledFlash' /\ ledOn' /\ pins' = SolidPins(health.level)
C23_LeavingFlashIsImmediate == [][C23_EntryStep]_vars
\* the level has just gone from 3 to 2 while the output was in its off phase
C23_Witness ==
  /\ pc = "led" /\ ledFlash /\ ~ledOn /\ pins = <<LOW, LOW, LOW>>
  /\ health.level = 2 /\ cycleLog[Len(cycleLog)] = "aggregate"

\* C24: while the indicator state does not flash, ledTick() changes nothing
\* of the indicator, whatever the age of the state: not the channel levels,
\* the flashing flag, the phase, the last-toggle time or the pins; the same
\* holds of a run of idle passes of loop().
C24_TickStep ==
  (pc = "led_tick" \/ (pc = "loop_top" /\ pc' = "loop_top")) /\ ~ledFlash
    => UNCHANGED <<ledR, ledG, ledB, ledFlash, ledOn, ledLastToggle, pins>>
C24_TickIsNoOpWhenSolid == [][C24_TickStep]_vars
\* ledTick() has returned in a solid state that was entered most of a
\* logging period before
C24_Witness ==
  /\ pc = "loop_top" /\ ~ledFlash /\ ledOn /\ pins = <<ledR, ledG, ledB>>
  /\ wdtArmed /\ ClockSub(now, ledLastToggle) >= LOG_PERIOD \div 2
  /\ ClockSub(now, ledLastToggle) % 2 = 1

\* C25: once the rate has been 0 in three consecutive windows (or more),
\* with the primary report of the window a success and the interior
\* temperature below the warning threshold, the cycle leaves level 2 and
\* the indicator solid red, with the pins red, and lastFailReason is
\* FAIL_NONE; zero tracking and the health and indicator updates never
\* write lastFailReason.
PrimarySucceeded ==
  /\ "primary" \in Range(cycleLog)
  /\ radmonTry.conn /\ radmonTry.code \in {200, 204}
C25_State ==
  /\ HealthCurrent /\ zeroRun >= ZERO_CPM_FAULT_COUNT /\ PrimarySucceeded
     /\ interiorTempC < TEMP_WARN_THRESHOLD_C
       => /\ health.level = 2 /\ health.sensorFault
          /\ lastFailReason = FAIL_NONE
          /\ pc # "led"
               => /\ <<ledR, ledG, ledB, ledFlash, ledOn>>
                       = <<HIGH, LOW, LOW, FALSE, TRUE>>
                  /\ pins = <<HIGH, LOW, LOW>>
C25_Step ==
  pc \in {"zero", "health", "led"} => lastFailReason' = lastFailReason
C25_SilentTubeIsSolidRed == [](C25_State) /\ [][C25_Step]_vars
\* the third silent window in a row has ended, its report delivered
C25_Witness ==
  /\ pc = "loop_top" /\ zeroRun = ZERO_CPM_FAULT_COUNT /\ PrimarySucceeded
  /\ interiorTempC = 250 /\ health.level = 2 /\ health.netOK
  /\ lastFailReason = FAIL_NONE /\ pins = <<HIGH, LOW, LOW>>

\* C26: from the end of setup() on, while netReady is false (DHCP failed at
\* boot and no periodic retry has succeeded yet), health.netOK is false, the
\* health level is at least 1 and the indicator is not green, at every
\* point of every pass of loop().
C26_DegradedIsNeverGreen ==
  wdtArmed /\ ~netReady
    => /\ health.level >= 1 /\ ~health.netOK
       /\ <<ledR, ledG, ledB>> # <<LOW, HIGH, LOW>>
       /\ pins # <<LOW, HIGH, LOW>>
\* a degraded device has just updated its indicator in a window after an
\* unsuccessful periodic retry
C26_Witness ==
  /\ wdtArmed /\ ~netReady /\ pc = "wdt_kick" /\ retryAt # -1
  /\ uptime > retryAt /\ health.level = 1 /\ pins = <<HIGH, HIGH, LOW>>

\* C27: after a window's cycle, and until the next cycle starts, if the
\* zero-rate streak is 3 or more (sensorFault), the indicator colour is red:
\* solid at level 2, flashing at level 3, and the pins are red or, in the
\* off phase of the flash, dark; this is so for a connected and for a
\* degraded device, whatever the report outcomes and the temperature.
AfterCycle == pc \in {"wdt_kick", "led_tick", "loop_top", "win_check"}
C27_SensorFaultIsRed ==
  AfterCycle /\ zeroRun >= ZERO_CPM_FAULT_COUNT
    => /\ health.sensorFault /\ health.level \in {2, 3}
       /\ <<ledR, ledG, ledB>> = <<HIGH, LOW, LOW>>
       /\ ledFlash = (health.level = 3)
       /\ pins = IF ledOn THEN <<HIGH, LOW, LOW>> ELSE <<LOW, LOW, LOW>>
       /\ ~ledOn => ledFlash
\* a sensor fault on a degraded device whose interior is in the warning band
C27_Witness ==
  /\ pc = "loop_top" /\ zeroRun >= ZERO_CPM_FAULT_COUNT /\ ~netReady
  /\ health.tempWarn /\ health.level = 2 /\ pins = <<HIGH, LOW, LOW>>

\* C28: the http field of the request sent by sendStatusPing() is the status
\* code of the primary report attempted in the same cycle: the code
\* readHttpStatusCode() returned to uploadToRadmon() (0 without a status
\* line), or 0 when the connect failed.
C28_PingCarriesThisWindowsCode ==
  pc \in {"health", "bitten"} /\ hqSent # NoPing
    => /\ "primary" \in Range(cycleLog) /\ radmonTry # NoTry
       /\ hqSent.http = (IF radmonTry.conn THEN radmonTry.code ELSE 0)
       /\ hqSent.http = lastHttpStatusCode
\* the primary report succeeded in the previous window and got a 500 in this
\* one, and the request of this window has been sent
C28_Witness ==
  /\ pc = "health" /\ hqSent # NoPing /\ hqSent.http = 500
  /\ everSuccess /\ sinceSuccess >= LOG_PERIOD - HTTP_TIMEOUT
  /\ radmonTry.conn /\ radmonTry.code = 500

\* C29 (as stated): the drain of the status ping's response ends within its
\* window: from the entry on, no more than the drain timeout has passed on
\* the clock while the drain runs and when it is over, and it is not the
\* watchdog that ends it; this for every behaviour of the server.
C29_DrainEndsInItsWindow ==
  /\ pc \in {"dr_outer", "dr_inner", "dr_done"}
       => ClockSub(now, start) <= DRAIN_TIMEOUT
  /\ pc # "bitten"

\* C30 (as stated): the request sent by sendStatusPing() carries the rate of
\* the window, the band of that rate and a level that accounts for that
\* band: rad = getRadiationState(cpm sent), level 3 when the band is DANGER
\* and at least 2 when it is WARN.
C30_PingBandIsOfItsRate ==
  pc \in {"health", "bitten"} /\ hqSent # NoPing
    => /\ hqSent.cpm = cpm
       /\ hqSent.rad = getRadiationState(hqSent.cpm)
       /\ hqSent.rad = RAD_DANGER => hqSent.level = 3
       /\ hqSent.rad = RAD_WARN => hqSent.level >= 2

\* C31: a DHT reading is accepted exactly when neither value is NaN, the
\* temperature lies strictly between -40 and 80 degrees and the humidity in
\* 0..100; a reading that is not accepted leaves both stored values as they
\* were; an accepted reading replaces a stored unknown by the reading itself
\* and moves a stored known value towards the reading.
Accepted(t, h) ==
  /\ t # NaN /\ h # NaN
  /\ -400 < t /\ t < 800 /\ 0 <= h /\ h <= 100
Towards(old, new, res) ==
  (old <= res /\ res <= new) \/ (new <= res /\ res <= old)
C31_InvalidReadingChangesNothing ==
  fnRes # <<>> /\ Len(fnArg) = 4 =>
    LET oldT == fnArg[1]
        oldH == fnArg[2]
        t == fnArg[3]
        h == fnArg[4]
    IN  IF Accepted(t, h)
        THEN /\ oldT = TEMP_UNKNOWN => fnRes[1] = t
             /\ oldH = HUM_UNKNOWN => fnRes[2] = h
             /\ oldT # TEMP_UNKNOWN => Towards(oldT, t, fnRes[1])
             /\ oldH # HUM_UNKNOWN => Towards(oldH, h, fnRes[2])
        ELSE fnRes = <<oldT, oldH>>
\* a plausible temperature came with an implausible humidity: nothing stored
C31_Witness ==
  fnArg = <<250, 50, 799, 101>> /\ fnRes = <<250, 50>>

\* C32: with the link up, a connected device (netReady) makes the secondary
\* report's connection attempt in every window cycle, whatever the primary
\* report's outcome was: past the two reports the cycle has both of them,
\* and a cycle the watchdog cut after the primary report was cut inside the
\* secondary one, after its request had been sent.
PastReports == {"health", "led", "wdt_kick"}
C32_SecondaryAfterAnyPrimary ==
  /\ pc \in PastReports /\ netReady
       => "primary" \in Range(cycleLog) /\ "secondary" \in Range(cycleLog)
  /\ pc = "bitten" /\ "primary" \in Range(cycleLog) => hqSent # NoPing
\* the primary report could not connect, and the secondary one was attempted
C32_Witness ==
  /\ pc = "health" /\ netReady /\ ~radmonTry.conn
  /\ lastFailReason = FAIL_CONNECT
  /\ cycleLog = <<"drain", "rate", "primary", "secondary">>

\* C33: the zero-streak counter is the length of the current run of
\* zero-rate windows up to 255 and stays at 255 for a longer run (it never
\* wraps to a small value, and never decreases within a run); the sensor
\* fault flag is set from the third window of a run until the first window
\* with a non-zero rate.
C33_StreakSaturates ==
  pc = "windows" =>
    /\ zeroCount \in 0..255
    /\ zeroCount = (IF zeroRun < 255 THEN zeroRun ELSE 255)
    /\ health.sensorFault = (zeroRun >= 3)
    /\ (cpm # 0) => zeroRun = 0
\* two windows past the saturation: the counter stands at 255, fault set
C33_Witness ==
  /\ pc = "windows" /\ zeroRun = 257 /\ zeroCount = 255
  /\ health.sensorFault

\* C34: in every state the device is degraded (netReady false) exactly when
\* the fail reason is FAIL_DHCP: a degraded device keeps FAIL_DHCP through
\* its window cycles, and a connected one never has it.
C34_DegradedIffDhcpFailed ==
  (~netReady) <=> (lastFailReason = FAIL_DHCP)
\* a degraded device past the staleness timeout, its stale check just run
C34_Witness ==
  /\ pc = "health" /\ ~netReady /\ lastFailReason = FAIL_DHCP
  /\ uptime > RADMON_FAIL_TIMEOUT

\* C35: netReady goes from true to false only in setup(), at the return of
\* the boot-time attemptDHCP() (the restart of the device puts it back to
\* its initial true); and loop() starts its periodic DHCP retry only while
\* netReady is false.  So a device that is connected stays connected and
\* runs no retry until it restarts.
C35_Step ==
  /\ (netReady /\ ~netReady') => (pc = "dhcp_try" /\ dhcpRet = "setup")
  /\ (pc = "loop_top" /\ pc' = "dhcp_try") => (~netReady /\ ~netReady')
  /\ (pc \notin {"boot", "dhcp_try", "dhcp_pause", "bitten"} /\ netReady)
       => (netReady' \/ pc' = "bitten")
C36_StaleStaysNotOk ==
  (pc = "led" /\ everSuccess /\ sinceSuccess > RADMON_FAIL_TIMEOUT)
    => ~health.netOK

\* C37: a pass of loop() starts a window cycle exactly when at least
\* LOG_PERIOD has really passed since previousMillis was last assigned (at
\* the start of the previous cycle, or in setup()), also when the clock has
\* wrapped in between; so two consecutive cycle starts are at least
\* LOG_PERIOD apart.
C37_Step ==
  (pc = "win_check" /\ pc' # pc)
    => /\ (pc' = "drain_read") <=> (uptime - cycleAt >= LOG_PERIOD)
       /\ pc' = "drain_read"
            => /\ previousMillis' = now /\ cycleAt' = uptime
               /\ cycleAt' - cycleAt >= LOG_PERIOD
C37_CadenceSurvivesWrap == [][C37_Step]_vars
\* the first cycle after the clock wrapped: previousMillis, just assigned,
\* is smaller than the value it replaced
C37_Witness ==
  /\ pc = "drain_read" /\ cycleAt = uptime
  /\ uptime >= ClockMod /\ uptime < ClockMod + LOG_PERIOD
  /\ previousMillis = now /\ now < LOG_PERIOD

\* C38: in every state in which the flashing flag is false the phase is on
\* and the pins carry the configured colour: no solid state shows a dark
\* output.
C38_SolidIsLit ==
  ~ledFlash => (ledOn /\ pins = <<ledR, ledG, ledB>>)
\* a solid red state entered by an indicator update two windows or more
\* after the start, with the level just computed below 3
C38_Witness ==
  /\ pc = "wdt_kick" /\ ~ledFlash /\ ledOn
  /\ health.level = 2 /\ pins = <<HIGH, LOW, LOW>>
  /\ ledLastToggle = now /\ uptime >= 2 * LOG_PERIOD

\* C39: the parser returns a non-zero code only having just read the line
\* feed of a line that begins with "HTTP/"; when the bytes of such a line
\* were read but the connection closed or the time ran out before its line
\* feed, with no complete line deciding before it, the result is 0; and a
\* complete line that begins with "HTTP/" and has no space does not end the
\* parsing: the parser reads on, or gives up for want of time or of bytes.
Unfinished(b) == TextBefore(b, Len(b) + 1)
C39_OnlyCompleteStatusLines ==
  pc = "rd_done" =>
    LET b == Consumed
    IN  /\ rdResult # 0
             => /\ rxPos >= 1 /\ b[rxPos] = LF
                /\ BeginsHttp(TextBefore(b, rxPos))
        /\ (\A i \in LfAt(b) : ~Decides(TextBefore(b, i)))
             => rdResult = 0 /\ ~gotStatusLine
        /\ \A i \in LfAt(b) :
             BeginsHttp(TextBefore(b, i)) /\ ~HasSpace(Kept(TextBefore(b, i)))
               => (i < rxPos \/ (rdResult = 0 /\ RdGaveUp))
\* the peer sent "HTTP/1.1 200 OK" without a line feed and closed: every
\* byte was read, and the result is 0
C39_Witness ==
  /\ pc = "rd_done" /\ rx = Line200 /\ rxPos = Len(rx)
  /\ peerClosed /\ Unfinished(Consumed) = Line200
  /\ rdResult = 0

\* C40: at every point of the parser the write index is within 0..63 and is
\* the number of characters stored, which are the first 63 characters (CR
\* dropped) of the line being read, so that the NUL written at the index on
\* a line feed lies inside the 64-byte buffer; and after a line feed that
\* does not end the parsing the index is 0.
C40_IndexInsideBuffer ==
  LET b == Consumed
  IN  /\ idx \in 0..63 /\ idx = Len(line)
      /\ pc \in {"rd_check", "rd_body", "rd_ret", "rd_done"}
           => line = (IF gotStatusLine
                      THEN Kept(TextBefore(b, rxPos))
                      ELSE Kept(Unfinished(b)))
      /\ (rxPos >= 1 /\ b[rxPos] = LF /\ ~gotStatusLine) => idx = 0
\* a line longer than the buffer is being read: the buffer holds its first
\* 63 characters, and more of the line has been read and dropped
C40_Witness ==
  /\ pc = "rd_check" /\ idx = 63 /\ ~gotStatusLine
  /\ Len(Unfinished(Consumed)) > 64
  /\ line = SubSeq(Unfinished(Consumed), 1, 63)

====
